---------------------------- MODULE Spec2Model ----------------------------
(***************************************************************************)
(* A model of the plan analysis core of sql_analyzer:                      *)
(*   plan_analyzer.py   analyze_query_plan, the three plan dialects and    *)
(*                      the performance scorer _calculate_score            *)
(*   join_analyzer.py   diagnose_empty_join and its auxiliary COUNT        *)
(*                      queries                                            *)
(*   suggestions.py     generate_suggestions and _extract_where_columns    *)
(*                                                                         *)
(* Conventions.                                                            *)
(*  - A Python str is a sequence of word tokens (<<"Seq", "Scan">> is the  *)
(*    text "Seq Scan"); the substring test `a in b` is the contiguous      *)
(*    occurrence of a's tokens in b, str.lower() maps Lower over the       *)
(*    tokens.                                                              *)
(*  - A float is an integer (milliseconds, cost units); x > t / 2 is       *)
(*    2 * x > t, which is exact.                                           *)
(*  - A function that mutates its PlanMetrics argument is an operator      *)
(*    from the metrics before to the metrics after; where a statement      *)
(*    can raise, the operator returns [m |-> metrics so far, exc |-> the   *)
(*    exception's class or NoExc].                                         *)
(***************************************************************************)
EXTENDS Integers, Sequences, FiniteSets, TLC

VARIABLES
    pc,                 \* position of the call under analysis
    metrics,            \* the PlanMetrics object of the call
    slow_threshold_ms,  \* argument slow_threshold_ms
    score,              \* value returned by _calculate_score
    explain_output,     \* argument explain_output of analyze_query_plan
    execution_time_ms,  \* argument execution_time_ms of analyze_query_plan
    db_type,            \* argument db_type of analyze_query_plan
    raised,             \* class of the exception that left the call, or NoExc
    query,              \* argument query of diagnose_empty_join
    tables,             \* local tables of diagnose_empty_join
    table_counts,       \* diagnostic.table_counts
    join_steps,         \* diagnostic.join_steps
    culprit_table,      \* diagnostic.culprit_table
    culprit_reason,     \* diagnostic.culprit_reason
    where_clause,       \* local where_clause of diagnose_empty_join
    prev_count,         \* local prev_count of diagnose_empty_join
    calls,              \* the calls made on the connector, in order
    warnings,           \* local warnings of generate_suggestions
    suggestions,        \* local suggestions of generate_suggestions
    where_cols,         \* value returned by _extract_where_columns
    queries,            \* argument queries of execute_all_queries
    explain_analyze,    \* argument explain_analyze of execute_all_queries
    continue_on_error,  \* argument continue_on_error of execute_all_queries
    results             \* local results of execute_all_queries

planVars == <<metrics, slow_threshold_ms, score, explain_output,
              execution_time_ms, db_type, raised>>

joinVars == <<query, tables, table_counts, join_steps, culprit_table,
              culprit_reason, where_clause, prev_count, calls>>

suggestVars == <<warnings, suggestions, where_cols>>

execVars == <<queries, explain_analyze, continue_on_error, results>>

vars == <<pc, planVars, joinVars, suggestVars, execVars>>

NoExc == "none"
None == [py |-> "None"]

\* The variables of generate_suggestions while no call of it is under analysis
IdleSuggest == warnings = <<>> /\ suggestions = <<>> /\ where_cols = <<>>

\* The variables of execute_all_queries while no call of it is under analysis
IdleExec ==
    /\ queries = <<>>
    /\ explain_analyze = FALSE
    /\ continue_on_error = TRUE
    /\ results = <<>>

\* The variables of diagnose_empty_join while no call of it is under analysis
IdleJoin ==
    /\ query = None
    /\ tables = <<>>
    /\ table_counts = <<>>
    /\ join_steps = <<>>
    /\ culprit_table = None
    /\ culprit_reason = <<>>
    /\ where_clause = <<>>
    /\ prev_count = -1
    /\ calls = <<>>

---------------------------------------------------------------------------
(* PlanMetrics, plan_analyzer.py *)

Flags == {"has_sequential_scan", "has_full_table_scan", "has_nested_loop",
          "has_hash_join", "has_large_sort", "has_bitmap_heap_scan",
          "has_temp_disk_usage", "missing_index_likely"}

PlanMetrics ==
    [startup_cost |-> 0, total_cost |-> 0, actual_time_ms |-> 0,
     estimated_rows |-> 0, actual_rows |-> 0,
     shared_hit_blocks |-> 0, shared_read_blocks |-> 0,
     temp_read_blocks |-> 0, temp_written_blocks |-> 0,
     planning_time_ms |-> 0, execution_time_ms |-> 0,
     node_types |-> <<>>, scan_types |-> <<>>, join_types |-> <<>>,
     tables_scanned |-> <<>>,
     has_sequential_scan |-> FALSE, has_full_table_scan |-> FALSE,
     has_nested_loop |-> FALSE, has_hash_join |-> FALSE,
     has_large_sort |-> FALSE, has_bitmap_heap_scan |-> FALSE,
     has_temp_disk_usage |-> FALSE, missing_index_likely |-> FALSE,
     performance_score |-> 10]

---------------------------------------------------------------------------
(* Python values.  A value is a tagged record; a str carries its tokens.   *)
(* The lexical units of a plan text are its tokens: the tree marker "|--"  *)
(* and the indentation are tokens of their own.                            *)

PyNone == [t |-> "null"]
PyBool(b) == [t |-> "bool", b |-> b]
PyNum(n) == [t |-> "num", n |-> n]
PyStr(toks) == [t |-> "str", s |-> toks]
PyList(items) == [t |-> "list", items |-> items]
PyDict(fields) == [t |-> "obj", fields |-> fields]

\* str.lower() on the tokens of the vocabulary
LowerPairs ==
    {<<"SCAN", "scan">>, <<"Scan", "scan">>, <<"SEARCH", "search">>,
     <<"USING", "using">>, <<"INDEX", "index">>,
     <<"COVERING", "covering">>, <<"AUTOMATIC", "automatic">>,
     <<"PARTIAL", "partial">>, <<"INTEGER", "integer">>,
     <<"PRIMARY", "primary">>, <<"KEY", "key">>, <<"USE", "use">>,
     <<"TEMP", "temp">>, <<"TEMPORARY", "temporary">>, <<"FOR", "for">>,
     <<"ORDER", "order">>, <<"BY", "by">>, <<"GROUP", "group">>,
     <<"DISTINCT", "distinct">>, <<"COMPOUND", "compound">>,
     <<"SUBQUERIES", "subqueries">>, <<"SUBQUERY", "subquery">>,
     <<"TABLE", "table">>, <<"Seq", "seq">>, <<"Index", "index">>,
     <<"Only", "only">>, <<"Bitmap", "bitmap">>, <<"Heap", "heap">>,
     <<"Tid", "tid">>, <<"Nested", "nested">>, <<"Loop", "loop">>,
     <<"Loops", "loops">>, <<"Hash", "hash">>, <<"Join", "join">>,
     <<"Match", "match">>, <<"Merge", "merge">>, <<"Sort", "sort">>,
     <<"Method", "method">>, <<"Disk", "disk">>,
     <<"External", "external">>, <<"Filter", "filter">>,
     <<"Table", "table">>, <<"Clustered", "clustered">>,
     <<"Node", "node">>, <<"Type", "type">>, <<"Plan", "plan">>,
     <<"Plans", "plans">>, <<"Rows", "rows">>, <<"Total", "total">>,
     <<"Cost", "cost">>, <<"Startup", "startup">>,
     <<"Relation", "relation">>, <<"Name", "name">>,
     <<"Planning", "planning">>, <<"Time", "time">>,
     <<"Execution", "execution">>, <<"Result", "result">>,
     <<"B-TREE", "b-tree">>, <<"CO-ROUTINE", "co-routine">>,
     <<"Filter:", "filter:">>,
     <<"Actual", "actual">>, <<"Shared", "shared">>, <<"Hit", "hit">>,
     <<"Read", "read">>, <<"Blocks", "blocks">>, <<"Written", "written">>,
     <<"Temp", "temp">>,
     <<"FROM", "from">>, <<"JOIN", "join">>, <<"LEFT", "left">>,
     <<"RIGHT", "right">>, <<"FULL", "full">>, <<"CROSS", "cross">>,
     <<"INNER", "inner">>, <<"OUTER", "outer">>, <<"AS", "as">>,
     <<"ON", "on">>, <<"WHERE", "where">>, <<"LIMIT", "limit">>,
     <<"HAVING", "having">>, <<"UNION", "union">>,
     <<"SELECT", "select">>, <<"SET", "set">>,
     <<"INSERT", "insert">>, <<"UPDATE", "update">>,
     <<"DELETE", "delete">>, <<"CREATE", "create">>,
     <<"IN", "in">>, <<"LIKE", "like">>, <<"BETWEEN", "between">>,
     <<"IS", "is">>, <<"AND", "and">>, <<"OR", "or">>, <<"NOT", "not">>,
     <<"NULL", "null">>, <<"TRUE", "true">>, <<"FALSE", "false">>,
     <<"EXISTS", "exists">>, <<"ANY", "any">>, <<"ALL", "all">>,
     <<"SOME", "some">>}

LowerMap ==
    [tok \in {p[1] : p \in LowerPairs} |->
        (CHOOSE p \in LowerPairs : p[1] = tok)[2]]

Lower(tok) == IF tok \in DOMAIN LowerMap THEN LowerMap[tok] ELSE tok

LowerStr(toks) == [i \in 1..Len(toks) |-> Lower(toks[i])]

\* a in b, for two str
Contains(toks, phrase) ==
    \E i \in 0..(Len(toks) - Len(phrase)) :
        SubSeq(toks, i + 1, i + Len(phrase)) = phrase

\* x in xs, for a list xs
InList(x, xs) == \E i \in 1..Len(xs) : xs[i] = x

\* Tokens made of whitespace only, and tokens made only of the characters
\* of "|- "
Whitespace == {"  ", "    "}
MarkerChars == {"|--", "|", "--", "-"} \cup Whitespace

RECURSIVE DropLeading(_, _)
DropLeading(toks, set) ==
    IF toks # <<>> /\ Head(toks) \in set THEN DropLeading(Tail(toks), set)
    ELSE toks

RECURSIVE DropTrailing(_, _)
DropTrailing(toks, set) ==
    IF toks # <<>> /\ toks[Len(toks)] \in set
    THEN DropTrailing(SubSeq(toks, 1, Len(toks) - 1), set)
    ELSE toks

\* raw_line.strip().lstrip("|- ")
StripLine(raw_line) ==
    DropLeading(DropTrailing(DropLeading(raw_line, Whitespace), Whitespace),
                MarkerChars)

\* The longest prefix of a token that \w+ matches ("" when it has none)
WordPrefixMap ==
    ("b-tree" :> "b") @@ ("B-TREE" :> "B") @@ ("co-routine" :> "co")
    @@ ("CO-ROUTINE" :> "CO") @@ ("(subquery-1)" :> "") @@ ("(user_id=?)" :> "")
    @@ ("|--" :> "") @@ ("  " :> "") @@ ("    " :> "")
    @@ ("Filter:" :> "Filter") @@ ("filter:" :> "filter")
    @@ ("cost=0..12000" :> "cost") @@ ("cost=5..20" :> "cost")
    @@ ("cost=1..2..3" :> "cost") @@ ("rows=2550" :> "rows")
    @@ ("u.id" :> "u") @@ ("o.user_id" :> "o") @@ ("i.order_id" :> "i")
    @@ ("o.id" :> "o") @@ ("o.total" :> "o") @@ ("=" :> "") @@ (">" :> "")
    @@ ("*" :> "") @@ ("(SELECT" :> "") @@ ("1)" :> "1") @@ ("t)" :> "t")
    @@ (" " :> "") @@ ("\n" :> "") @@ ("." :> "") @@ ("'" :> "") @@ ("(" :> "")
    @@ (")" :> "") @@ ("," :> "") @@ ("!=" :> "") @@ ("<>" :> "")
    @@ (">=" :> "") @@ ("<=" :> "") @@ ("<" :> "")

WordPrefix(tok) == IF tok \in DOMAIN WordPrefixMap THEN WordPrefixMap[tok] ELSE tok

IsWord(tok) == tok # "" /\ WordPrefix(tok) = tok

---------------------------------------------------------------------------
(* _parse_sqlite_plan, plan_analyzer.py *)

Append1(m, field, v) == [m EXCEPT ![field] = Append(@, v)]

\* if table not in metrics.tables_scanned: metrics.tables_scanned.append(table)
AddTableAlways(m, table) == Append1(m, "tables_scanned", table)

AddTable(m, table) ==
    IF ~InList(table, m.tables_scanned) THEN Append1(m, "tables_scanned", table)
    ELSE m

\* re.match(r"SCAN\s+(\w+)", line, re.IGNORECASE)
ScanMatch(line) ==
    /\ Len(line) >= 2
    /\ Lower(line[1]) = "scan"
    /\ WordPrefix(line[2]) # ""

SqliteScan(m, line) ==
    LET table == PyStr(<<WordPrefix(line[2])>>)
        m1 == Append1(m, "node_types", PyStr(<<"SCAN">>))
        m2 == Append1(m1, "scan_types", PyStr(<<"Full", "Table", "Scan">>))
        m3 == AddTable(m2, table)
    IN  [m3 EXCEPT !.has_sequential_scan = TRUE,
                   !.has_full_table_scan = TRUE,
                   !.missing_index_likely = TRUE]

\* re.match(r"SEARCH\s+(\w+)\s+USING\s+(.+)", line, re.IGNORECASE)
SearchMatch(line) ==
    /\ Len(line) >= 4
    /\ Lower(line[1]) = "search"
    /\ IsWord(line[2])
    /\ Lower(line[3]) = "using"

SqliteSearch(m, line) ==
    LET table == PyStr(<<line[2]>>)
        using_detail == LowerStr(SubSeq(line, 4, Len(line)))
        m1 == Append1(m, "node_types", PyStr(<<"SEARCH">>))
        m2 == AddTable(m1, table)
    IN  IF Contains(using_detail, <<"covering", "index">>)
        THEN Append1(m2, "scan_types", PyStr(<<"Covering", "Index", "Scan">>))
        ELSE IF Contains(using_detail, <<"integer", "primary", "key">>)
        THEN Append1(m2, "scan_types", PyStr(<<"Primary", "Key", "Lookup">>))
        ELSE IF Contains(using_detail, <<"automatic">>)
        THEN [Append1(m2, "scan_types", PyStr(<<"Automatic", "Index">>))
                 EXCEPT !.missing_index_likely = TRUE]
        ELSE Append1(m2, "scan_types", PyStr(<<"Index", "Scan">>))

SqliteTempBTree(m, line_lower) ==
    LET m1 == [Append1(m, "node_types", PyStr(<<"Temporary", "B-Tree">>))
                  EXCEPT !.has_large_sort = TRUE]
    IN  IF Contains(line_lower, <<"order", "by">>)
        THEN Append1(m1, "scan_types", PyStr(<<"Temp", "Sort", "(ORDER", "BY)">>))
        ELSE IF Contains(line_lower, <<"group", "by">>)
        THEN Append1(m1, "scan_types", PyStr(<<"Temp", "Sort", "(GROUP", "BY)">>))
        ELSE IF Contains(line_lower, <<"distinct">>)
        THEN Append1(m1, "scan_types", PyStr(<<"Temp", "Sort", "(DISTINCT)">>))
        ELSE Append1(m1, "scan_types", PyStr(<<"Temp", "Sort">>))

\* The body of the loop over explain_text.splitlines()
SqliteLine(m, raw_line) ==
    LET line == StripLine(raw_line)
        line_lower == LowerStr(line)
    IN  IF ScanMatch(line) THEN SqliteScan(m, line)
        ELSE IF SearchMatch(line) THEN SqliteSearch(m, line)
        ELSE IF \/ Contains(line_lower, <<"temporary", "b-tree">>)
                \/ Contains(line_lower, <<"temp", "b-tree">>)
        THEN SqliteTempBTree(m, line_lower)
        ELSE IF Contains(line_lower, <<"compound", "subqueries">>)
        THEN Append1(m, "node_types", PyStr(<<"Compound", "Subqueries">>))
        ELSE IF \/ Contains(line_lower, <<"co-routine">>)
                \/ Contains(line_lower, <<"coroutine">>)
        THEN Append1(m, "node_types", PyStr(<<"Co-Routine">>))
        ELSE IF line_lower # <<>> /\ line_lower[1] = "subquery"
        THEN Append1(m, "node_types", PyStr(<<"Subquery">>))
        ELSE IF line # <<>> THEN Append1(m, "node_types", PyStr(line))
        ELSE m

\* for raw_line in explain_text.splitlines(): the metrics after lines lo..hi,
\* the lower half of the range before the upper half.  (The singleton set
\* has TLC evaluate the metrics of the lower half before it starts on the
\* upper half, which keeps the evaluation of a long text shallow.)
RECURSIVE SqliteLines(_, _, _, _)
SqliteLines(lines, lo, hi, m) ==
    IF lo > hi THEN m
    ELSE IF lo = hi THEN SqliteLine(m, lines[lo])
    ELSE LET mid == (lo + hi) \div 2
         IN  CHOOSE after \in {SqliteLines(lines, mid + 1, hi, before) :
                                  before \in {SqliteLines(lines, lo, mid, m)}} :
                 TRUE

_parse_sqlite_plan(lines, m) == SqliteLines(lines, 1, Len(lines), m)

---------------------------------------------------------------------------
(* Python semantics used by the JSON dialect *)

Ok(m) == [m |-> m, exc |-> NoExc]
Raise(m, e) == [m |-> m, exc |-> e]

\* Run F on the metrics left by r unless r raised
Then(r, F(_)) == IF r.exc # NoExc THEN r ELSE F(r.m)

\* int and float; bool is a subclass of int
IsNum(v) == v.t \in {"num", "bool"}
NumOf(v) == IF v.t = "bool" THEN (IF v.b THEN 1 ELSE 0) ELSE v.n

\* The value a metrics field holds after `metrics.f = v`: fields that only
\* ever hold numbers are integers, any other value is kept as it is
Stored(v) == IF IsNum(v) THEN NumOf(v) ELSE v

Hashable(v) == v.t \notin {"list", "obj"}

\* bool(v)
Truthy(v) ==
    CASE v.t = "null" -> FALSE
      [] v.t = "bool" -> v.b
      [] v.t = "num" -> v.n # 0
      [] v.t = "str" -> v.s # <<>>
      [] v.t = "list" -> v.items # <<>>
      [] v.t = "obj" -> DOMAIN v.fields # {}

\* The tokens of the dictionary keys the analyzer reads
KeyToks(key) ==
    CASE key = "Planning Time" -> <<"Planning", "Time">>
      [] key = "Execution Time" -> <<"Execution", "Time">>
      [] key = "Plan" -> <<"Plan">>
      [] key = "Plans" -> <<"Plans">>
      [] key = "Node Type" -> <<"Node", "Type">>
      [] key = "Startup Cost" -> <<"Startup", "Cost">>
      [] key = "Total Cost" -> <<"Total", "Cost">>
      [] key = "Plan Rows" -> <<"Plan", "Rows">>
      [] key = "Actual Rows" -> <<"Actual", "Rows">>
      [] key = "Shared Hit Blocks" -> <<"Shared", "Hit", "Blocks">>
      [] key = "Shared Read Blocks" -> <<"Shared", "Read", "Blocks">>
      [] key = "Temp Read Blocks" -> <<"Temp", "Read", "Blocks">>
      [] key = "Temp Written Blocks" -> <<"Temp", "Written", "Blocks">>
      [] key = "Relation Name" -> <<"Relation", "Name">>
      [] key = "Filter" -> <<"Filter">>
      [] key = "Sort Method" -> <<"Sort", "Method">>
      [] OTHER -> <<key>>

\* `key in v` can be evaluated (v is a container or a str)
SupportsIn(v) == v.t \in {"obj", "str", "list"}

\* key in v
KeyIn(key, v) ==
    CASE v.t = "obj" -> key \in DOMAIN v.fields
      [] v.t = "str" -> Contains(v.s, KeyToks(key))
      [] v.t = "list" -> InList(PyStr(KeyToks(key)), v.items)

\* node.get(key, default), node a dict
Get(node, key, default) ==
    IF key \in DOMAIN node.fields THEN node.fields[key] ELSE default

---------------------------------------------------------------------------
(* _walk_plan_node, plan_analyzer.py *)

LargeSortRows == 10000

ScanNodeTypes ==
    {PyStr(<<"Seq", "Scan">>), PyStr(<<"Index", "Scan">>),
     PyStr(<<"Index", "Only", "Scan">>), PyStr(<<"Bitmap", "Index", "Scan">>),
     PyStr(<<"Bitmap", "Heap", "Scan">>), PyStr(<<"Tid", "Scan">>)}

JoinNodeTypes ==
    {PyStr(<<"Nested", "Loop">>), PyStr(<<"Hash", "Join">>),
     PyStr(<<"Merge", "Join">>)}

NodeTypeOf(node) == Get(node, "Node Type", PyStr(<<>>))

\* node_type = node.get("Node Type", ""); metrics.node_types.append(node_type)
WalkNodeType(node, m) ==
    IF node.t # "obj" THEN Raise(m, "AttributeError")
    ELSE Ok(Append1(m, "node_types", NodeTypeOf(node)))

\* Extract cost: keep the highest Total Cost seen, with its Startup Cost
WalkCostSummed(node, m) ==
    LET total_cost == Get(node, "Total Cost", PyNum(0))
    IN  IF ~IsNum(total_cost) THEN Raise(m, "TypeError")
        ELSE Ok([m EXCEPT !.total_cost = @ + NumOf(total_cost)])

WalkCostLastWins(node, m) ==
    LET startup_cost == Get(node, "Startup Cost", PyNum(0))
        total_cost == Get(node, "Total Cost", PyNum(0))
    IN  IF ~IsNum(total_cost) THEN Raise(m, "TypeError")
        ELSE IF NumOf(total_cost) >= m.total_cost
        THEN Ok([m EXCEPT !.total_cost = NumOf(total_cost),
                          !.startup_cost = Stored(startup_cost)])
        ELSE Ok(m)

WalkCost(node, m) ==
    LET startup_cost == Get(node, "Startup Cost", PyNum(0))
        total_cost == Get(node, "Total Cost", PyNum(0))
    IN  IF ~IsNum(total_cost) THEN Raise(m, "TypeError")
        ELSE IF NumOf(total_cost) > m.total_cost
        THEN Ok([m EXCEPT !.total_cost = NumOf(total_cost),
                          !.startup_cost = Stored(startup_cost)])
        ELSE Ok(m)

\* metrics.<field> += v
AddTo(m, field, v) ==
    IF ~IsNum(v) THEN Raise(m, "TypeError")
    ELSE Ok([m EXCEPT ![field] = @ + NumOf(v)])

\* Extract row estimates
WalkRows(node, m) ==
    Then(AddTo(m, "estimated_rows", Get(node, "Plan Rows", PyNum(0))),
         LAMBDA m1 : AddTo(m1, "actual_rows", Get(node, "Actual Rows", PyNum(0))))

\* if key in node: metrics.<field> += node[key]
AddIfPresent(node, key, field, m) ==
    IF key \in DOMAIN node.fields THEN AddTo(m, field, node.fields[key])
    ELSE Ok(m)

\* ... and, for the temp counters, if node[key] > 0: has_temp_disk_usage
AddTempIfPresent(node, key, field, m) ==
    Then(AddIfPresent(node, key, field, m),
         LAMBDA m1 :
            IF key \in DOMAIN node.fields /\ NumOf(node.fields[key]) > 0
            THEN Ok([m1 EXCEPT !.has_temp_disk_usage = TRUE])
            ELSE Ok(m1))

\* Extract buffer info
WalkBuffers(node, m) ==
    Then(AddIfPresent(node, "Shared Hit Blocks", "shared_hit_blocks", m),
    LAMBDA m1 :
    Then(AddIfPresent(node, "Shared Read Blocks", "shared_read_blocks", m1),
    LAMBDA m2 :
    Then(AddTempIfPresent(node, "Temp Read Blocks", "temp_read_blocks", m2),
    LAMBDA m3 :
    AddTempIfPresent(node, "Temp Written Blocks", "temp_written_blocks", m3))))

\* Detect scan types, sequential scan, bitmap heap scan
WalkScan(node, m) ==
    LET node_type == NodeTypeOf(node)
        table == Get(node, "Relation Name", PyStr(<<"unknown">>))
        m1 == IF node_type \in ScanNodeTypes
              THEN AddTable(Append1(m, "scan_types", node_type), table)
              ELSE m
        m2 == IF node_type = PyStr(<<"Seq", "Scan">>)
              THEN [m1 EXCEPT !.has_sequential_scan = TRUE,
                              !.has_full_table_scan = TRUE,
                              !.missing_index_likely =
                                  @ \/ Truthy(Get(node, "Filter", PyNone))]
              ELSE m1
        m3 == IF node_type = PyStr(<<"Bitmap", "Heap", "Scan">>)
              THEN [m2 EXCEPT !.has_bitmap_heap_scan = TRUE]
              ELSE m2
    IN  IF ~Hashable(node_type) THEN Raise(m, "TypeError") ELSE Ok(m3)

\* Detect join types
WalkJoin(node, m) ==
    LET node_type == NodeTypeOf(node)
        m1 == IF node_type \in JoinNodeTypes
              THEN Append1(m, "join_types", node_type)
              ELSE m
        m2 == IF node_type = PyStr(<<"Nested", "Loop">>)
              THEN [m1 EXCEPT !.has_nested_loop = TRUE]
              ELSE m1
    IN  IF node_type = PyStr(<<"Hash", "Join">>)
        THEN Ok([m2 EXCEPT !.has_hash_join = TRUE])
        ELSE Ok(m2)

\* Detect large sort
WalkSort(node, m) ==
    LET sort_method == Get(node, "Sort Method", PyStr(<<>>))
        plan_rows == Get(node, "Plan Rows", PyNum(0))
    IN  IF NodeTypeOf(node) # PyStr(<<"Sort">>) THEN Ok(m)
        ELSE IF sort_method.t # "str" THEN Raise(m, "AttributeError")
        ELSE Ok([m EXCEPT !.has_large_sort =
                    \/ @
                    \/ Contains(LowerStr(sort_method.s), <<"disk">>)
                    \/ Contains(LowerStr(sort_method.s), <<"external">>)
                    \/ NumOf(plan_rows) > LargeSortRows])

RECURSIVE _walk_plan_node(_, _)
RECURSIVE WalkChildren(_, _, _)

\* for child in <a list>: _walk_plan_node(child, metrics)
WalkChildren(children, i, m) ==
    IF i > Len(children) THEN Ok(m)
    ELSE Then(_walk_plan_node(children[i], m),
              LAMBDA m1 : WalkChildren(children, i + 1, m1))

\* Recurse into child plans: for child in node.get("Plans", [])
WalkPlans(node, m) ==
    LET plans == Get(node, "Plans", PyList(<<>>))
    IN  CASE plans.t = "list" -> WalkChildren(plans.items, 1, m)
          \* iterating a str yields str, iterating a dict yields its keys:
          \* the first child has no .get
          [] plans.t \in {"str", "obj"} ->
                IF Truthy(plans) THEN Raise(m, "AttributeError") ELSE Ok(m)
          [] OTHER -> Raise(m, "TypeError")

_walk_plan_node(node, m) ==
    Then(WalkNodeType(node, m), LAMBDA m1 :
    Then(WalkCost(node, m1),    LAMBDA m2 :
    Then(WalkRows(node, m2),    LAMBDA m3 :
    Then(WalkBuffers(node, m3), LAMBDA m4 :
    Then(WalkScan(node, m4),    LAMBDA m5 :
    Then(WalkJoin(node, m5),    LAMBDA m6 :
    Then(WalkSort(node, m6),    LAMBDA m7 :
    WalkPlans(node, m7))))))))

---------------------------------------------------------------------------
(* _parse_postgres_json_plan, plan_analyzer.py *)

\* if key in plan_data: metrics.<field> = plan_data[key]
SetIfPresent(plan_data, key, field, m) ==
    IF ~SupportsIn(plan_data) THEN Raise(m, "TypeError")
    ELSE IF ~KeyIn(key, plan_data) THEN Ok(m)
    ELSE IF plan_data.t # "obj" THEN Raise(m, "TypeError")
    ELSE Ok([m EXCEPT ![field] = Stored(plan_data.fields[key])])

\* if "Plan" in plan_data: _walk_plan_node(plan_data["Plan"], metrics)
ParsePlanTree(plan_data, m) ==
    IF ~SupportsIn(plan_data) THEN Raise(m, "TypeError")
    ELSE IF ~KeyIn("Plan", plan_data) THEN Ok(m)
    ELSE IF plan_data.t # "obj" THEN Raise(m, "TypeError")
    ELSE _walk_plan_node(plan_data.fields["Plan"], m)

_parse_postgres_json_plan(plan_data, m) ==
    Then(SetIfPresent(plan_data, "Planning Time", "planning_time_ms", m),
    LAMBDA m1 :
    Then(SetIfPresent(plan_data, "Execution Time", "actual_time_ms", m1),
    LAMBDA m2 :
    ParsePlanTree(plan_data, m2)))

---------------------------------------------------------------------------
(* The text of a plan.  explain_output is None or a str; a str is given    *)
(* either by its lines of tokens (fmt "lines": the text is not JSON) or,   *)
(* when it is a JSON document, by the value json.loads returns for it      *)
(* (fmt "json").  The lines of a JSON document are those json.dumps writes *)
(* for the value with indent=2 (executor.py, _run_explain_postgres).       *)

LinesText(lines) == [py |-> "str", fmt |-> "lines", lines |-> lines]
JsonText(value) == [py |-> "str", fmt |-> "json", value |-> value]

\* json.loads(explain_output)
JsonLoads(text) ==
    IF text.fmt = "json" THEN [exc |-> NoExc, value |-> text.value]
    ELSE [exc |-> "JSONDecodeError", value |-> PyNone]

KeyOrder ==
    <<"Planning Time", "Execution Time", "Plan", "Node Type", "Relation Name",
      "Startup Cost", "Total Cost", "Plan Rows", "Actual Rows",
      "Shared Hit Blocks", "Shared Read Blocks", "Temp Read Blocks",
      "Temp Written Blocks", "Filter", "Sort Method", "Alias", "Plans">>

Quoted(toks) == <<"\"">> \o toks \o <<"\"">>

RECURSIVE ConcatAll(_)
ConcatAll(seqs) ==
    IF seqs = <<>> THEN <<>> ELSE Head(seqs) \o ConcatAll(Tail(seqs))

RECURSIVE JsonLines(_)
JsonLines(v) ==
    CASE v.t = "null" -> << <<"null">> >>
      [] v.t = "bool" -> << <<IF v.b THEN "true" ELSE "false">> >>
      [] v.t = "num" -> << <<ToString(v.n)>> >>
      [] v.t = "str" -> << Quoted(v.s) >>
      [] v.t = "list" /\ v.items = <<>> -> << <<"[]">> >>
      [] v.t = "list" /\ v.items # <<>> ->
            << <<"[">> >>
            \o ConcatAll([i \in 1..Len(v.items) |-> JsonLines(v.items[i])])
            \o << <<"]">> >>
      [] v.t = "obj" ->
            << <<"{">> >>
            \o ConcatAll([i \in 1..Len(KeyOrder) |->
                    IF KeyOrder[i] \in DOMAIN v.fields
                    THEN LET ls == JsonLines(v.fields[KeyOrder[i]])
                         IN  << Quoted(KeyToks(KeyOrder[i])) \o <<":">> \o Head(ls) >>
                             \o Tail(ls)
                    ELSE <<>>])
            \o << <<"}">> >>

\* explain_text.splitlines()
SplitLines(text) ==
    IF text.fmt = "lines" THEN text.lines ELSE JsonLines(text.value)

\* not explain_output
IsEmptyOrNone(text) == text = None \/ SplitLines(text) = <<>>

---------------------------------------------------------------------------
(* _parse_text_plan, plan_analyzer.py *)

\* phrase in explain_text.lower()
TextHas(lines, phrase) ==
    \E i \in 1..Len(lines) : Contains(LowerStr(lines[i]), phrase)

\* The groups of r"cost=(\d+\.?\d*)\.\.([\d.]+)" in the tokens that match it
CostMatchMap ==
    ("cost=0..12000" :> <<"0", "12000">>) @@ ("cost=5..20" :> <<"5", "20">>)
    @@ ("cost=1..2..3" :> <<"1", "2..3">>)

\* The group of r"rows=(\d+)", converted by int()
RowsMatchMap == ("rows=2550" :> 2550)

\* float(s) where it is defined
FloatMap ==
    ("0" :> 0) @@ ("1" :> 1) @@ ("5" :> 5) @@ ("20" :> 20) @@ ("12000" :> 12000)

\* re.search: the first token of the text in the domain of a match map
FirstMatch(lines, map) ==
    LET toks == ConcatAll(lines)
        hits == {i \in 1..Len(toks) : toks[i] \in DOMAIN map}
    IN  IF hits = {} THEN ""
        ELSE toks[CHOOSE i \in hits : \A j \in hits : i <= j]

TextScanFlags(lines, m) ==
    IF \/ TextHas(lines, <<"seq", "scan">>)
       \/ TextHas(lines, <<"table", "scan">>)
       \/ TextHas(lines, <<"clustered", "index", "scan">>)
    THEN [m EXCEPT !.has_sequential_scan = TRUE, !.has_full_table_scan = TRUE]
    ELSE m

TextJoinFlags(lines, m) ==
    LET m1 == IF \/ TextHas(lines, <<"nested", "loop">>)
                 \/ TextHas(lines, <<"nested", "loops">>)
              THEN [Append1(m, "join_types", PyStr(<<"Nested", "Loop">>))
                       EXCEPT !.has_nested_loop = TRUE]
              ELSE m
    IN  IF \/ TextHas(lines, <<"hash", "join">>)
           \/ TextHas(lines, <<"hash", "match">>)
        THEN [Append1(m1, "join_types", PyStr(<<"Hash", "Join">>))
                 EXCEPT !.has_hash_join = TRUE]
        ELSE m1

TextSortFlags(lines, m) ==
    LET m1 == IF TextHas(lines, <<"bitmap", "heap", "scan">>)
              THEN [m EXCEPT !.has_bitmap_heap_scan = TRUE]
              ELSE m
    IN  IF /\ TextHas(lines, <<"sort">>)
           /\ TextHas(lines, <<"disk">>) \/ TextHas(lines, <<"external">>)
        THEN [m1 EXCEPT !.has_large_sort = TRUE]
        ELSE m1

\* Extract cost from text format (cost=X..Y); float() raises ValueError on
\* a second group such as "2..3"
TextCost(lines, m) ==
    LET tok == FirstMatch(lines, CostMatchMap)
    IN  IF tok = "" THEN Ok(m)
        ELSE IF \E k \in 1..2 : CostMatchMap[tok][k] \notin DOMAIN FloatMap
        THEN Raise(m, "ValueError")
        ELSE Ok([m EXCEPT !.startup_cost = FloatMap[CostMatchMap[tok][1]],
                          !.total_cost = FloatMap[CostMatchMap[tok][2]]])

\* Extract rows, then check for missing index hints
TextRows(lines, m) ==
    LET tok == FirstMatch(lines, RowsMatchMap)
        m1 == IF tok = "" THEN m
              ELSE [m EXCEPT !.estimated_rows = RowsMatchMap[tok]]
    IN  IF TextHas(lines, <<"filter:">>) /\ TextHas(lines, <<"seq", "scan">>)
        THEN [m1 EXCEPT !.missing_index_likely = TRUE]
        ELSE m1

_parse_text_plan(lines, m) ==
    Then(TextCost(lines, TextSortFlags(lines, TextJoinFlags(lines,
                         TextScanFlags(lines, m)))),
         LAMBDA m1 : Ok(TextRows(lines, m1)))

---------------------------------------------------------------------------
(* _calculate_score, plan_analyzer.py *)

HighCost == 10000
MildCost == 1000

Max(a, b) == IF a >= b THEN a ELSE b
Min(a, b) == IF a <= b THEN a ELSE b

\* Deduct for slow execution
TimeDeduction(m, threshold) ==
    IF m.execution_time_ms > threshold THEN 3
    ELSE IF 2 * m.execution_time_ms > threshold THEN 1
    ELSE 0

\* Deduct for sequential / full table scan
ScanDeduction(m) == IF m.has_sequential_scan THEN 2 ELSE 0

\* Deduct for missing index
MissingIndexDeduction(m) == IF m.missing_index_likely THEN 1 ELSE 0

NestedLoopBonus(m) == IF m.has_nested_loop THEN -1 ELSE 0

\* Deduct for nested loops
NestedLoopDeduction(m) == IF m.has_nested_loop THEN 1 ELSE 0

\* Deduct for large sort operations
LargeSortDeduction(m) == IF m.has_large_sort THEN 1 ELSE 0

\* Deduct for temporary disk usage
TempDiskDeduction(m) == IF m.has_temp_disk_usage THEN 1 ELSE 0

CostDeductionMildBand(m) ==
    IF m.total_cost > HighCost THEN 1
    ELSE IF m.total_cost > MildCost THEN 1
    ELSE 0

\* Deduct for high cost; the band above MildCost deducts nothing
CostDeduction(m) ==
    IF m.total_cost > HighCost THEN 1
    ELSE IF m.total_cost > MildCost THEN 0
    ELSE 0

ClampNoFloor(s) == Min(10, s)

\* Clamp to 1-10
Clamp(s) == Max(1, Min(10, s))

_calculate_score(m, threshold) ==
    Clamp(10 - TimeDeduction(m, threshold)
             - ScanDeduction(m)
             - MissingIndexDeduction(m)
             - NestedLoopDeduction(m)
             - LargeSortDeduction(m)
             - TempDiskDeduction(m)
             - CostDeduction(m))

---------------------------------------------------------------------------
(* analyze_query_plan, plan_analyzer.py *)

\* The try block: json.loads, then the JSON dialect on the first element
TryJson(text, m) ==
    LET loaded == JsonLoads(text)
        plan_data == loaded.value
    IN  IF loaded.exc # NoExc THEN Raise(m, loaded.exc)
        ELSE IF plan_data.t = "list" /\ Len(plan_data.items) > 0
        THEN _parse_postgres_json_plan(plan_data.items[1], m)
        ELSE Ok(m)

\* except (json.JSONDecodeError, TypeError): fall back to text parsing
Caught == {"JSONDecodeError", "TypeError"}

JsonOrText(text, m) ==
    LET r == TryJson(text, m)
    IN  IF r.exc \in Caught THEN _parse_text_plan(SplitLines(text), r.m)
        ELSE r

\* The dispatch on db_type
Dispatch(text, db, m) ==
    IF db = "sqlite" THEN Ok(_parse_sqlite_plan(SplitLines(text), m))
    ELSE JsonOrText(text, m)

\* metrics.performance_score = _calculate_score(metrics, slow_threshold_ms)
Scored(m, threshold) ==
    [m EXCEPT !.performance_score = _calculate_score(m, threshold)]

\* if not explain_output: return metrics
EarlyReturn(m, threshold) == Ok(m)

\* metrics = PlanMetrics(); metrics.execution_time_ms = execution_time_ms
NewMetricsTimeDropped(time_ms) == PlanMetrics

NewMetrics(time_ms) == [PlanMetrics EXCEPT !.execution_time_ms = time_ms]

analyze_query_plan(text, time_ms, threshold, db) ==
    LET m0 == NewMetrics(time_ms)
    IN  IF IsEmptyOrNone(text) THEN EarlyReturn(m0, threshold)
        ELSE Then(Dispatch(text, db, m0),
                  LAMBDA m1 : Ok(Scored(m1, threshold)))

---------------------------------------------------------------------------
(* The scorer applied to an arbitrary PlanMetrics value. *)

\* execution_time_ms is a measured duration (executor.py: a difference of
\* time.perf_counter() readings), so it is never negative; the threshold is
\* the unvalidated --slow-threshold argument.
ExecTimes == {0, 4, 5, 6, 11}
Thresholds == {-10, 0, 10}
CostValues == {0, MildCost + 1, HighCost, HighCost + 1}
RowValues == {0, 20000}

FlagValuations == [Flags -> BOOLEAN]

WithFlags(m, f) ==
    [m EXCEPT !.has_sequential_scan = f["has_sequential_scan"],
              !.has_full_table_scan = f["has_full_table_scan"],
              !.has_nested_loop = f["has_nested_loop"],
              !.has_hash_join = f["has_hash_join"],
              !.has_large_sort = f["has_large_sort"],
              !.has_bitmap_heap_scan = f["has_bitmap_heap_scan"],
              !.has_temp_disk_usage = f["has_temp_disk_usage"],
              !.missing_index_likely = f["missing_index_likely"]]

FlagsOf(m) == [f \in Flags |-> m[f]]

IdlePlanArgs ==
    /\ explain_output = None
    /\ execution_time_ms = 0
    /\ db_type = "postgres"
    /\ raised = NoExc

InitScore ==
    /\ pc = "score_call"
    /\ \E f \in FlagValuations, c \in CostValues, r \in RowValues, t \in ExecTimes :
          metrics = [WithFlags(PlanMetrics, f) EXCEPT !.total_cost = c,
                                                      !.estimated_rows = r,
                                                      !.actual_rows = r,
                                                      !.shared_read_blocks = r,
                                                      !.execution_time_ms = t]
    /\ slow_threshold_ms \in Thresholds
    /\ score = 0
    /\ IdlePlanArgs
    /\ IdleJoin
    /\ IdleSuggest
    /\ IdleExec

CalculateScore ==
    /\ pc = "score_call"
    /\ score' = _calculate_score(metrics, slow_threshold_ms)
    /\ pc' = "score_done"
    /\ UNCHANGED <<metrics, slow_threshold_ms, explain_output,
                   execution_time_ms, db_type, raised>>
    /\ UNCHANGED joinVars
    /\ UNCHANGED suggestVars
    /\ UNCHANGED execVars

NextScore == CalculateScore

SpecScore == InitScore /\ [][NextScore]_vars

---------------------------------------------------------------------------
(* analyze_query_plan applied to plan texts of the three dialects, for     *)
(* every engine identifier.                                                *)

MaxPlanLines == 3
MaxTextLines == 2

DbTypes == {"postgres", "sqlserver", "sqlite", "mysql"}
SupportedDbTypes == {"postgres", "sqlserver", "sqlite"}
PlanExecTimes == {0, 6, 11}
PlanThresholds == {10}

TableNames == {"orders", "users"}

\* Lines of EXPLAIN QUERY PLAN output as _run_explain_sqlite writes them
\* (indentation, "|--", detail), and a bare detail
SqliteLinePool ==
    {<<"|--", "SCAN", "orders">>,
     <<"SCAN", "orders">>,
     <<"  ", "|--", "SCAN", "users">>,
     <<"|--", "SEARCH", "orders", "USING", "INDEX", "idx_user", "(user_id=?)">>,
     <<"  ", "|--", "SEARCH", "users", "USING", "AUTOMATIC", "COVERING",
       "INDEX", "(user_id=?)">>,
     <<"|--", "SEARCH", "users", "USING", "INTEGER", "PRIMARY", "KEY",
       "(rowid=?)">>,
     <<"|--", "USE", "TEMP", "B-TREE", "FOR", "ORDER", "BY">>,
     <<"|--", "CO-ROUTINE", "(subquery-1)">>}

\* Lines of text plans (PostgreSQL text format, SQL Server SHOWPLAN_TEXT)
TextLinePool ==
    {<<"Seq", "Scan", "on", "orders", "cost=0..12000", "rows=2550">>,
     <<"Filter:", "(user_id", "=", "1)">>,
     <<"Nested", "Loops">>,
     <<"Hash", "Match">>,
     <<"Sort", "external", "merge">>,
     <<"Table", "Scan", "cost=1..2..3">>,
     <<"Bitmap", "Heap", "Scan", "on", "orders", "cost=5..20">>}

SeqsUpTo(pool, n) == UNION {[1..k -> pool] : k \in 0..n}

LineTexts ==
    {LinesText(ls) : ls \in SeqsUpTo(SqliteLinePool, MaxPlanLines)
                          \cup SeqsUpTo(TextLinePool, MaxTextLines)}

\* Plan nodes of EXPLAIN (FORMAT JSON)
SeqScanNode ==
    PyDict(("Node Type" :> PyStr(<<"Seq", "Scan">>))
        @@ ("Relation Name" :> PyStr(<<"orders">>))
        @@ ("Startup Cost" :> PyNum(0)) @@ ("Total Cost" :> PyNum(12000))
        @@ ("Plan Rows" :> PyNum(2550))
        @@ ("Filter" :> PyStr(<<"(user_id", "=", "1)">>)))

IndexScanNode ==
    PyDict(("Node Type" :> PyStr(<<"Index", "Scan">>))
        @@ ("Relation Name" :> PyStr(<<"users">>))
        @@ ("Startup Cost" :> PyNum(1)) @@ ("Total Cost" :> PyNum(8))
        @@ ("Plan Rows" :> PyNum(1)) @@ ("Actual Rows" :> PyNum(1))
        @@ ("Shared Hit Blocks" :> PyNum(3)))

JoinNode(type, children) ==
    PyDict(("Node Type" :> PyStr(type))
        @@ ("Startup Cost" :> PyNum(1)) @@ ("Total Cost" :> PyNum(12010))
        @@ ("Plan Rows" :> PyNum(2550))
        @@ ("Plans" :> PyList(children)))

SortNode(method, rows, fields) ==
    PyDict(("Node Type" :> PyStr(<<"Sort">>)) @@ ("Sort Method" :> method)
        @@ ("Total Cost" :> PyNum(20)) @@ ("Plan Rows" :> rows) @@ fields)

\* A node with one attribute replaced or added
With(node, key, v) == PyDict((key :> v) @@ node.fields)

\* The document PostgreSQL returns: a list of one object holding the plan
Doc(plan) ==
    PyList(<<PyDict(("Plan" :> plan) @@ ("Planning Time" :> PyNum(1))
                    @@ ("Execution Time" :> PyNum(3)))>>)

WellFormedDocs ==
    <<Doc(SeqScanNode),
      Doc(IndexScanNode),
      Doc(JoinNode(<<"Nested", "Loop">>, <<SeqScanNode, IndexScanNode>>)),
      Doc(JoinNode(<<"Hash", "Join">>, <<IndexScanNode, SeqScanNode>>)),
      Doc(SortNode(PyStr(<<"external", "merge">>), PyNum(10),
                   ("Plans" :> PyList(<<SeqScanNode>>)))),
      Doc(SortNode(PyStr(<<"quicksort">>), PyNum(20000),
                   ("Temp Written Blocks" :> PyNum(4)))),
      Doc(With(IndexScanNode, "Node Type", PyStr(<<"Bitmap", "Heap", "Scan">>)))>>

\* Valid JSON of other shapes
OddDocs ==
    <<PyNum(5),
      PyNone,
      PyStr(<<"Seq", "Scan">>),
      PyList(<<>>),
      PyDict("Plan" :> SeqScanNode),
      PyList(<<PyNum(1)>>),
      PyList(<<PyNone>>),
      PyList(<<PyStr(<<"abc">>)>>),
      PyList(<<PyStr(<<"Plan">>)>>),
      PyList(<<PyList(<<PyStr(<<"Plan">>)>>)>>),
      PyList(<<PyDict("Planning Time" :> PyStr(<<"fast">>))>>),
      Doc(PyNum(1)),
      Doc(PyNone),
      Doc(PyList(<<SeqScanNode>>)),
      Doc(With(SeqScanNode, "Total Cost", PyNone)),
      Doc(With(SeqScanNode, "Total Cost", PyStr(<<"12000">>))),
      Doc(With(SeqScanNode, "Startup Cost", PyNone)),
      Doc(With(SeqScanNode, "Plan Rows", PyStr(<<"many">>))),
      Doc(With(SeqScanNode, "Temp Read Blocks", PyNone)),
      Doc(With(SeqScanNode, "Relation Name", PyNone)),
      Doc(With(SeqScanNode, "Node Type", PyNone)),
      Doc(With(SeqScanNode, "Node Type", PyNum(5))),
      Doc(With(SeqScanNode, "Node Type", PyList(<<PyStr(<<"Seq", "Scan">>)>>))),
      Doc(SortNode(PyNone, PyNum(10), ("Alias" :> PyNone))),
      Doc(SortNode(PyNum(3), PyNum(10), ("Alias" :> PyNone))),
      Doc(With(SeqScanNode, "Plans", PyNone)),
      Doc(With(SeqScanNode, "Plans", PyList(<<PyNum(1)>>))),
      Doc(With(SeqScanNode, "Plans", PyStr(<<"x">>))),
      Doc(With(SeqScanNode, "Plans", PyStr(<<>>))),
      Doc(JoinNode(<<"Nested", "Loop">>, <<IndexScanNode, PyNone>>))>>

\* A node carrying every cost, row and buffer attribute
PlanNode(type, startup, total, rows, children) ==
    PyDict(("Node Type" :> PyStr(type))
        @@ ("Startup Cost" :> PyNum(startup)) @@ ("Total Cost" :> PyNum(total))
        @@ ("Plan Rows" :> PyNum(rows)) @@ ("Actual Rows" :> PyNum(rows + 1))
        @@ ("Shared Hit Blocks" :> PyNum(2))
        @@ ("Shared Read Blocks" :> PyNum(rows))
        @@ ("Temp Read Blocks" :> PyNum(0))
        @@ ("Temp Written Blocks" :> PyNum(1))
        @@ ("Plans" :> PyList(children)))

\* A node of EXPLAIN (FORMAT JSON, COSTS OFF)
CostlessNode(type, children) ==
    PyDict(("Node Type" :> PyStr(type)) @@ ("Plans" :> PyList(children)))

\* Plan trees two and three levels deep: children whose Total Cost is above
\* that of their parent and equal to each other, a child whose Total Cost
\* equals that of its parent, nodes without costs
TreeDocs ==
    <<Doc(PlanNode(<<"Limit">>, 0, 5, 10,
              <<PlanNode(<<"Append">>, 0, 4, 30,
                    <<With(PlanNode(<<"Seq", "Scan">>, 1, 9, 100, <<>>),
                           "Relation Name", PyStr(<<"orders">>)),
                      With(PlanNode(<<"Index", "Scan">>, 2, 9, 20, <<>>),
                           "Relation Name", PyStr(<<"users">>)),
                      PlanNode(<<"Sort">>, 0, 3, 20000, <<>>)>>)>>)),
      Doc(PlanNode(<<"Hash", "Join">>, 3, 30, 5,
              <<PlanNode(<<"Seq", "Scan">>, 1, 9, 100, <<>>),
                PlanNode(<<"Hash">>, 7, 30, 20, <<>>)>>)),
      Doc(CostlessNode(<<"Nested", "Loop">>,
              <<CostlessNode(<<"Seq", "Scan">>, <<>>),
                CostlessNode(<<"Index", "Only", "Scan">>, <<>>)>>))>>

JsonDocs == WellFormedDocs \o TreeDocs \o OddDocs

IdleScore == score = 0

InitPlan ==
    /\ pc = "plan_call"
    /\ \/ explain_output = None
       \/ explain_output \in LineTexts
       \/ \E i \in 1..Len(JsonDocs) : explain_output = JsonText(JsonDocs[i])
    /\ execution_time_ms \in PlanExecTimes
    /\ slow_threshold_ms \in PlanThresholds
    /\ db_type \in DbTypes
    /\ metrics = PlanMetrics
    /\ raised = NoExc
    /\ IdleScore
    /\ IdleJoin
    /\ IdleSuggest
    /\ IdleExec

\* One call of analyze_query_plan: it returns its metrics or an exception
\* leaves it
AnalyzeQueryPlan ==
    /\ pc = "plan_call"
    /\ LET r == analyze_query_plan(explain_output, execution_time_ms,
                                   slow_threshold_ms, db_type)
       IN  /\ metrics' = r.m
           /\ raised' = r.exc
           /\ pc' = IF r.exc = NoExc THEN "plan_returned" ELSE "plan_raised"
    /\ UNCHANGED <<explain_output, execution_time_ms, slow_threshold_ms,
                   db_type, score>>
    /\ UNCHANGED joinVars
    /\ UNCHANGED suggestVars
    /\ UNCHANGED execVars

NextPlan == AnalyzeQueryPlan

SpecPlan == InitPlan /\ [][NextPlan]_vars

---------------------------------------------------------------------------
(* C1: for every PlanMetrics value and every threshold _calculate_score    *)
(* returns an integer in 1..10; with every deduction applying at once it   *)
(* returns 1.                                                              *)

AllDeductionsApply(m, threshold) ==
    /\ m.execution_time_ms > threshold
    /\ m.has_sequential_scan /\ m.missing_index_likely /\ m.has_nested_loop
    /\ m.has_large_sort /\ m.has_temp_disk_usage
    /\ m.total_cost > HighCost

C1_ScoreInRange ==
    pc = "score_done" =>
        /\ score \in 1..10
        /\ AllDeductionsApply(metrics, slow_threshold_ms) => score = 1

C1_Witness ==
    /\ pc = "score_done"
    /\ AllDeductionsApply(metrics, slow_threshold_ms)
    /\ score = 1

(* C2 as stated: with execution_time_ms below slow_threshold_ms / 2 and    *)
(* every flag false, the score is 10 whatever the non-flag fields hold.    *)

NoFlagSet(m) == \A f \in Flags : ~m[f]

C2_Original ==
    (/\ pc = "score_done"
     /\ 2 * metrics.execution_time_ms < slow_threshold_ms
     /\ NoFlagSet(metrics))
        => score = 10

(* C2 as amended: with a non-negative execution_time_ms below              *)
(* slow_threshold_ms / 2, every flag false and total_cost at most 10000,   *)
(* the score is 10 whatever the other non-flag fields hold.                *)

C2_Precondition ==
    /\ pc = "score_done"
    /\ 2 * metrics.execution_time_ms < slow_threshold_ms
    /\ metrics.execution_time_ms >= 0
    /\ NoFlagSet(metrics)
    /\ metrics.total_cost <= HighCost

C2_ScoreTen == C2_Precondition => score = 10

C2_Witness ==
    /\ C2_Precondition
    /\ metrics.total_cost > MildCost
    /\ metrics.estimated_rows > 0
    /\ score = 10

(* C3: with execution time, threshold, total cost and the other flags      *)
(* fixed, setting any one flag that is false never increases the score.    *)

SetFlag(m, f) == WithFlags(m, [FlagsOf(m) EXCEPT ![f] = TRUE])

C3_FlagMonotone ==
    pc = "score_done" =>
        \A f \in Flags :
            ~metrics[f] =>
                _calculate_score(SetFlag(metrics, f), slow_threshold_ms) <= score

C3_Witness ==
    /\ pc = "score_done"
    /\ ~metrics.has_nested_loop
    /\ _calculate_score(SetFlag(metrics, "has_nested_loop"), slow_threshold_ms) < score
    /\ ~metrics.has_hash_join
    /\ _calculate_score(SetFlag(metrics, "has_hash_join"), slow_threshold_ms) = score

---------------------------------------------------------------------------
(* Claims about analyze_query_plan, checked under SpecPlan.                *)

Counters ==
    {"startup_cost", "total_cost", "actual_time_ms", "estimated_rows",
     "actual_rows", "shared_hit_blocks", "shared_read_blocks",
     "temp_read_blocks", "temp_written_blocks", "planning_time_ms"}

Lists == {"node_types", "scan_types", "join_types", "tables_scanned"}

\* Every flag false, every cost, row and buffer counter zero, every list empty
DefaultAnalysis(m) ==
    /\ NoFlagSet(m)
    /\ \A c \in Counters : m[c] = 0
    /\ \A l \in Lists : m[l] = <<>>

(* C4 as stated: when the plan text is None or empty, the returned         *)
(* performance_score equals _calculate_score applied to the returned       *)
(* metrics and slow_threshold_ms, for every execution_time_ms.             *)

C4_EmptyPlanScored ==
    (pc = "plan_returned" /\ IsEmptyOrNone(explain_output))
        => metrics.performance_score
               = _calculate_score(metrics, slow_threshold_ms)

(* C5: on a plan text that is None or empty, analyze_query_plan returns,   *)
(* for every engine and every execution_time_ms, metrics with every flag   *)
(* false, every cost, row and buffer counter zero and every list empty;    *)
(* execution_time_ms holds the value supplied.                             *)

C5_EmptyPlanDefaults ==
    (pc # "plan_call" /\ IsEmptyOrNone(explain_output))
        => /\ pc = "plan_returned"
           /\ DefaultAnalysis(metrics)
           /\ metrics.execution_time_ms = execution_time_ms

C5_Witness ==
    /\ pc = "plan_returned"
    /\ explain_output = LinesText(<<>>)
    /\ db_type = "sqlite"
    /\ execution_time_ms = 11
    /\ metrics.execution_time_ms = 11
    /\ DefaultAnalysis(metrics)

(* C6 as stated: with an engine identifier other than postgres, sqlserver  *)
(* and sqlite and a non-empty plan text, analyze_query_plan parses         *)
(* nothing: it returns metrics with every flag false and every counter     *)
(* zero, and does not raise.                                               *)

C6_UnsupportedEngineDefaults ==
    (/\ pc # "plan_call"
     /\ db_type \notin SupportedDbTypes
     /\ ~IsEmptyOrNone(explain_output))
        => /\ pc = "plan_returned"
           /\ DefaultAnalysis(metrics)

(* C7 as stated: analyze_query_plan never raises, for every plan text and  *)
(* every engine; a text json.loads rejects is analysed by the text         *)
(* heuristics.                                                             *)

C7_NeverRaises ==
    /\ pc # "plan_raised"
    /\ (/\ pc = "plan_returned"
        /\ explain_output # None
        /\ ~IsEmptyOrNone(explain_output)
        /\ JsonLoads(explain_output).exc # NoExc
        /\ db_type # "sqlite")
           => metrics = Scored(_parse_text_plan(SplitLines(explain_output),
                                                NewMetrics(execution_time_ms)).m,
                               slow_threshold_ms)

(* C8: for a sqlite plan with one or more lines SCAN <table>, with or      *)
(* without the "|--" marker and indentation, has_sequential_scan,          *)
(* has_full_table_scan and missing_index_likely are true, scan_types holds *)
(* one "Full Table Scan" per SCAN line, and each scanned table is exactly  *)
(* once in tables_scanned however many SCAN or SEARCH lines name it.       *)

\* The lines SCAN <table> of the plans analysed, and the table of each
ScanLines ==
    {<<"|--", "SCAN", "orders">>,
     <<"SCAN", "orders">>,
     <<"  ", "|--", "SCAN", "users">>}

ScannedTable(line) == line[Len(line)]

Occurrences(xs, x) == Cardinality({i \in 1..Len(xs) : xs[i] = x})

C8_Precondition ==
    /\ pc = "plan_returned"
    /\ db_type = "sqlite"
    /\ explain_output # None
    /\ explain_output.fmt = "lines"
    /\ \E i \in 1..Len(explain_output.lines) :
          explain_output.lines[i] \in ScanLines

C8_SqliteScan ==
    C8_Precondition =>
        LET lines == explain_output.lines
            scans == {i \in 1..Len(lines) : lines[i] \in ScanLines}
        IN  /\ metrics.has_sequential_scan
            /\ metrics.has_full_table_scan
            /\ metrics.missing_index_likely
            /\ Occurrences(metrics.scan_types, PyStr(<<"Full", "Table", "Scan">>))
                   = Cardinality(scans)
            /\ \A i \in scans :
                  Occurrences(metrics.tables_scanned,
                              PyStr(<<ScannedTable(lines[i])>>)) = 1

C8_Witness ==
    /\ C8_Precondition
    /\ explain_output.lines =
           << <<"|--", "SCAN", "orders">>,
              <<"|--", "SEARCH", "orders", "USING", "INDEX", "idx_user",
                "(user_id=?)">>,
              <<"SCAN", "orders">> >>
    /\ metrics.tables_scanned = <<PyStr(<<"orders">>)>>
    /\ Len(metrics.scan_types) = 3

---------------------------------------------------------------------------
(* diagnose_empty_join, join_analyzer.py.  A str is its sequence of        *)
(* tokens.  Each auxiliary query is one step: the connector answers it     *)
(* with a row count or with an exception.                                  *)

TableInfo(table_name, alias, join_type, on_condition) ==
    [table_name |-> table_name, alias |-> alias, join_type |-> join_type,
     on_condition |-> on_condition]

TableCountErrorDropped(table_name, alias, row_count, error) ==
    [table_name |-> table_name, alias |-> alias, row_count |-> row_count,
     error |-> None]

TableCount(table_name, alias, row_count, error) ==
    [table_name |-> table_name, alias |-> alias, row_count |-> row_count,
     error |-> error]

JoinStepResult(step, tables_joined, join_sql, row_count, error) ==
    [step |-> step, tables_joined |-> tables_joined, join_sql |-> join_sql,
     row_count |-> row_count, error |-> error]

\* sql of _count_table
CountTableSql(table_name) == <<"SELECT", "COUNT(*)", "FROM", table_name>>

\* One " {join_type} {table_name} {alias}{on_part}" of _count_join_step
JoinPart(t) ==
    t.join_type \o <<t.table_name, t.alias>>
    \o (IF t.on_condition # <<>> THEN <<"ON">> \o t.on_condition ELSE <<>>)

\* sql of _count_join_step for tables[0..up_to_index]
CountJoinStepSql(tabs, up_to_index, where) ==
    <<"SELECT", "COUNT(*)", "FROM", tabs[1].table_name, tabs[1].alias>>
    \o ConcatAll([i \in 1..up_to_index |-> JoinPart(tabs[i + 1])])
    \o (IF where # <<>> THEN <<"WHERE">> \o where ELSE <<>>)

\* What the try block of _count_table and _count_join_step returns for a
\* query: (row[0] if row else 0, None), or (0, str(e)) when it raised.
\* str(e) of a driver error is a message, never "".
Counts == {0, 3}
ErrorText == PyStr(<<"no", "such", "table">>)

QueryOutcomes ==
    {[row_count |-> c, error |-> None] : c \in Counts}
    \cup {[row_count |-> 0, error |-> ErrorText]}

\* A helper that leaves a successful query uncommitted
ConnectorCallsUncommitted(sql, outcome) ==
    <<[op |-> "execute", sql |-> sql, outcome |-> outcome]>>
    \o (IF outcome.error = None THEN <<>>
        ELSE <<[op |-> "rollback", sql |-> <<>>, outcome |-> None]>>)

\* cur.execute(sql), then connector.commit(), or connector.rollback() in
\* the except branch
ConnectorCalls(sql, outcome) ==
    <<[op |-> "execute", sql |-> sql, outcome |-> outcome],
      [op |-> IF outcome.error = None THEN "commit" ELSE "rollback",
       sql |-> <<>>, outcome |-> None]>>

\* ", ".join(names)
CommaJoin(names) ==
    [i \in 1..(2 * Len(names) - 1) |->
        IF i % 2 = 1 THEN names[(i + 1) \div 2] ELSE ","]

\* [tc for tc in diagnostic.table_counts if tc.row_count == 0]
EmptyOrFailedTables(counts) ==
    SelectSeq(counts, LAMBDA tc : tc.row_count = 0)

\* [tc for tc in diagnostic.table_counts if tc.row_count == 0 and not tc.error]
EmptyTables(counts) ==
    SelectSeq(counts, LAMBDA tc : tc.row_count = 0 /\ tc.error = None)

EmptyTableReason(empty_tables) ==
    <<"Table(s)">>
    \o CommaJoin([i \in 1..Len(empty_tables) |-> empty_tables[i].table_name])
    \o <<"contain", "0", "rows", "-", "any", "JOIN", "involving", "an",
         "empty", "table", "will", "always", "produce", "0", "results", ".">>

JoinStepReason(culprit) ==
    <<"JOIN", "with", culprit.table_name, "(">> \o culprit.join_type
    \o <<"ON">>
    \o culprit.on_condition
    \o <<")", "reduces", "the", "result", "to", "0", "rows", ".", "Check",
         "that", "matching", "records", "exist", "in", "'",
         culprit.table_name, "'", "for", "the", "join", "condition", ".">>

WhereReason(last_count_no_where, where) ==
    <<"The", "full", "JOIN", "produces", ToString(last_count_no_where),
      "rows", ",", "but", "the", "WHERE", "clause", "(">>
    \o where
    \o <<")", "filters", "all", "of", "them", "out", ".">>

FallbackReason ==
    <<"The", "combination", "of", "all", "JOINs", "produces", "0", "rows",
      ".", "Check", "that", "join", "conditions", "have", "matching", "data",
      "across", "tables", ".">>

(* _extract_tables_from_query and _extract_where_clause. The query is the  *)
(* sequence of its whitespace-separated tokens, which is what              *)
(* " ".join(query.split()) keeps of it. No token holds a ';', and a token  *)
(* that starts with a keyword is that keyword.                             *)

\* str.upper() of a token, for the tokens it is compared with: a token
\* that is no keyword in any case stays different from all of them
Upper(tok) ==
    LET keywords == {"LEFT", "RIGHT", "FULL", "CROSS", "INNER", "OUTER",
                     "SELECT", "ON", "WHERE", "SET", "INSERT", "UPDATE",
                     "DELETE", "CREATE", "AND", "OR", "NOT", "NULL", "TRUE",
                     "FALSE", "IN", "LIKE", "BETWEEN", "IS", "EXISTS", "ANY",
                     "ALL", "SOME"}
    IN  IF \E u \in keywords : Lower(u) = tok
        THEN CHOOSE u \in keywords : Lower(u) = tok
        ELSE tok

\* (?:LEFT|RIGHT|FULL|CROSS|INNER|OUTER), re.IGNORECASE
JoinModifiers == {"left", "right", "full", "cross", "inner", "outer"}

\* The lookahead that ends a JOIN clause, tried at the gap before token q of
\* the text, low being the text in lower case (re.IGNORECASE):
\* \s+(?:LEFT|...|OUTER)?\s*JOIN\b | \s+WHERE\b | \s+GROUP\b | \s+ORDER\b |
\* \s+LIMIT\b | \s+HAVING\b | \s+UNION\b | ; | \s*$
JoinLookahead(low, q) ==
    \/ q > Len(low)
    \/ low[q] = "join"
    \/ /\ low[q] \in JoinModifiers
       /\ q < Len(low)
       /\ low[q + 1] = "join"
    \/ low[q] \in {"where", "group", "order", "limit", "having", "union"}

\* re.search(r"\bFROM\s+(\w+)(?:\s+(?:AS\s+)?(\w+))?", normalised), and the
\* TableInfo appended for it. The character before group 1 is the
\* whitespace \s+ matched, never "(", so the subquery test never skips.
FromTable(toks) ==
    LET starts == {i \in 1..(Len(toks) - 1) :
                      Lower(toks[i]) = "from" /\ WordPrefix(toks[i + 1]) # ""}
    IN  IF starts = {} THEN <<>>
        ELSE LET i == CHOOSE x \in starts : \A y \in starts : x <= y
                 tbl == WordPrefix(toks[i + 1])
                 alias ==
                     IF ~IsWord(toks[i + 1]) \/ i + 2 > Len(toks) THEN tbl
                     ELSE IF /\ Lower(toks[i + 2]) = "as"
                             /\ i + 3 <= Len(toks)
                             /\ WordPrefix(toks[i + 3]) # ""
                          THEN WordPrefix(toks[i + 3])
                     ELSE IF WordPrefix(toks[i + 2]) # ""
                          THEN WordPrefix(toks[i + 2])
                     ELSE tbl
             IN  <<TableInfo(tbl, alias, <<"FROM">>, <<>>)>>

\* One match of join_pattern whose JOIN keyword is toks[j]:
\* JOIN\s+(\w+)(?:\s+(?:AS\s+)?(\w+))?(?:\s+ON\s+(.*?))?(?=lookahead).
\* The alias and the ON group are greedy and optional, (.*?) is lazy; next is
\* the first token the match did not consume.
JoinMatch(toks, low, j) ==
    LET n == Len(toks)
        p == j + 2
        OnGroup(q) ==
            IF q < n /\ low[q] = "on"
            THEN LET e == CHOOSE x \in (q + 2)..(n + 1) :
                              /\ JoinLookahead(low, x)
                              /\ \A k \in (q + 2)..(x - 1) :
                                     ~JoinLookahead(low, k)
                 IN  [ok |-> TRUE, on |-> SubSeq(toks, q + 1, e - 1), next |-> e]
            ELSE [ok |-> JoinLookahead(low, q), on |-> <<>>, next |-> q]
        Found(alias, rest) ==
            [ok |-> TRUE, tbl |-> toks[j + 1], alias |-> alias,
             on |-> rest.on, next |-> rest.next]
    IN  IF ~(j + 1 <= n /\ IsWord(toks[j + 1])) THEN [ok |-> FALSE]
        ELSE IF /\ p + 1 <= n
                /\ low[p] = "as"
                /\ IsWord(toks[p + 1])
                /\ OnGroup(p + 2).ok
             THEN Found(toks[p + 1], OnGroup(p + 2))
        ELSE IF p <= n /\ IsWord(toks[p]) /\ OnGroup(p + 1).ok
             THEN Found(toks[p], OnGroup(p + 1))
        ELSE IF OnGroup(p).ok THEN Found(toks[j + 1], OnGroup(p))
        ELSE [ok |-> FALSE]

\* for m in join_pattern.finditer(normalised), from the first token that
\* earlier matches left unconsumed
RECURSIVE JoinTables(_, _, _)
JoinTables(toks, low, from) ==
    LET js == {j \in from..Len(toks) :
                  low[j] = "join" /\ JoinMatch(toks, low, j).ok}
    IN  IF js = {} THEN <<>>
        ELSE LET j == CHOOSE x \in js : \A y \in js : x <= y
                 m == JoinMatch(toks, low, j)
                 join_type ==
                     IF j > from /\ low[j - 1] \in JoinModifiers
                     THEN <<Upper(toks[j - 1]), "JOIN">>
                     ELSE <<"JOIN">>
                 rest == JoinTables(toks, low, m.next)
             IN  IF Upper(m.tbl) \in {"SELECT", "ON", "WHERE", "SET"} THEN rest
                 ELSE <<TableInfo(m.tbl, m.alias, join_type, m.on)>> \o rest

_extract_tables_from_query(toks) ==
    FromTable(toks) \o JoinTables(toks, LowerStr(toks), 1)

\* re.search(r"\bWHERE\s+(.*?)(?:\s+GROUP\b|\s+ORDER\b|\s+LIMIT\b|
\* \s+HAVING\b|\s+UNION\b|;|\s*$)", normalised); group 1 stripped, or ""
_extract_where_clause(toks) ==
    LET n == Len(toks)
        starts == {i \in 1..(n - 1) : Lower(toks[i]) = "where"}
    IN  IF starts = {} THEN <<>>
        ELSE LET i == CHOOSE x \in starts : \A y \in starts : x <= y
                 e == CHOOSE x \in (i + 2)..(n + 1) :
                          /\ (x > n \/ Lower(toks[x]) \in
                                 {"group", "order", "limit", "having", "union"})
                          /\ \A k \in (i + 2)..(x - 1) :
                                 Lower(toks[k]) \notin
                                 {"group", "order", "limit", "having", "union"}
             IN  SubSeq(toks, i + 1, e - 1)

\* if len(tables) < 2
NoTables(ts) == Len(ts) < 1

TooFewTables(ts) == Len(ts) < 2

\* tables = _extract_tables_from_query(query); if len(tables) < 2: return None
ExtractTables ==
    /\ pc = "join_call"
    /\ tables' = _extract_tables_from_query(query)
    /\ pc' = IF TooFewTables(_extract_tables_from_query(query))
             THEN "join_returned_none"
             ELSE "count_tables"
    /\ UNCHANGED <<query, table_counts, join_steps, culprit_table,
                   culprit_reason, where_clause, prev_count, calls>>
    /\ UNCHANGED planVars
    /\ UNCHANGED suggestVars
    /\ UNCHANGED execVars

\* Step 1, one iteration: count the rows of the next table
CountTable ==
    /\ pc = "count_tables"
    /\ LET t == tables[Len(table_counts) + 1]
       IN  \E outcome \in QueryOutcomes :
              /\ calls' = calls \o ConnectorCalls(CountTableSql(t.table_name),
                                                  outcome)
              /\ table_counts' =
                     Append(table_counts,
                            TableCount(t.table_name, t.alias,
                                       outcome.row_count, outcome.error))
    /\ pc' = IF Len(table_counts) + 1 = Len(tables) THEN "check_empty"
             ELSE "count_tables"
    /\ UNCHANGED <<query, tables, join_steps, culprit_table, culprit_reason,
                   where_clause, prev_count>>
    /\ UNCHANGED planVars
    /\ UNCHANGED suggestVars
    /\ UNCHANGED execVars

\* Check if any table is empty; otherwise enter Step 2
CheckEmptyTables ==
    /\ pc = "check_empty"
    /\ LET empty_tables == EmptyTables(table_counts)
       IN  IF empty_tables # <<>>
           THEN /\ culprit_table' = PyStr(<<empty_tables[1].table_name>>)
                /\ culprit_reason' = EmptyTableReason(empty_tables)
                /\ pc' = "join_returned"
                /\ UNCHANGED <<where_clause, prev_count>>
           ELSE /\ where_clause' = _extract_where_clause(query)
                /\ prev_count' = -1
                /\ pc' = "join_steps"
                /\ UNCHANGED <<culprit_table, culprit_reason>>
    /\ UNCHANGED <<query, tables, table_counts, join_steps, calls>>
    /\ UNCHANGED planVars
    /\ UNCHANGED suggestVars
    /\ UNCHANGED execVars

\* A test that takes a zero for a drop only after a positive count
DropsFromRows(count, prev) == count = 0 /\ prev > 0

\* if count == 0 and prev_count != 0
DropsToZero(count, prev) == count = 0 /\ prev # 0

\* Step 2, one iteration: join one more table and count
CountJoinStep ==
    /\ pc = "join_steps"
    /\ LET step_idx == Len(join_steps) + 1
           sql == CountJoinStepSql(tables, step_idx, <<>>)
           culprit == tables[step_idx + 1]
       IN  \E outcome \in QueryOutcomes :
              /\ calls' = calls \o ConnectorCalls(sql, outcome)
              /\ join_steps' =
                     Append(join_steps,
                            JoinStepResult(step_idx,
                                [i \in 1..(step_idx + 1) |-> tables[i].table_name],
                                sql, outcome.row_count, outcome.error))
              /\ IF DropsToZero(outcome.row_count, prev_count)
                 THEN /\ culprit_table' = PyStr(<<culprit.table_name>>)
                      /\ culprit_reason' = JoinStepReason(culprit)
                 ELSE UNCHANGED <<culprit_table, culprit_reason>>
              /\ prev_count' = outcome.row_count
    /\ pc' = IF Len(join_steps) + 1 = Len(tables) - 1 THEN "where_check"
             ELSE "join_steps"
    /\ UNCHANGED <<query, tables, table_counts, where_clause>>
    /\ UNCHANGED planVars
    /\ UNCHANGED suggestVars
    /\ UNCHANGED execVars

\* The fallback reason, given the culprit Step 3 leaves
Fallback(culprit, reason) ==
    IF /\ culprit = None
       /\ join_steps # <<>>
       /\ join_steps[Len(join_steps)].row_count = 0
    THEN FallbackReason
    ELSE reason

\* if last_count_no_where > 0 and count_with_where == 0
JoinProducesRows(last_count_no_where, count_with_where) ==
    last_count_no_where > 0

WhereFiltersAll(last_count_no_where, count_with_where) ==
    last_count_no_where > 0 /\ count_with_where = 0

\* Step 3 with its condition true: re-run the last step with the WHERE
\* clause; then the fallback reason and the return
CountWithWhere ==
    /\ pc = "where_check"
    /\ culprit_table = None /\ where_clause # <<>>
    /\ LET last_count_no_where ==
               IF join_steps # <<>> THEN join_steps[Len(join_steps)].row_count
               ELSE 0
           sql == CountJoinStepSql(tables, Len(tables) - 1, where_clause)
       IN  \E outcome \in QueryOutcomes :
              /\ calls' = calls \o ConnectorCalls(sql, outcome)
              /\ IF WhereFiltersAll(last_count_no_where, outcome.row_count)
                 THEN /\ culprit_table' = PyStr(<<"WHERE", "clause">>)
                      /\ culprit_reason' =
                             WhereReason(last_count_no_where, where_clause)
                 ELSE /\ culprit_table' = culprit_table
                      /\ culprit_reason' = Fallback(culprit_table, culprit_reason)
    /\ pc' = "join_returned"
    /\ UNCHANGED <<query, tables, table_counts, join_steps, where_clause,
                   prev_count>>
    /\ UNCHANGED planVars
    /\ UNCHANGED suggestVars
    /\ UNCHANGED execVars

\* Step 3 with its condition false; then the fallback reason and the return
ReturnDiagnostic ==
    /\ pc = "where_check"
    /\ ~(culprit_table = None /\ where_clause # <<>>)
    /\ culprit_reason' = Fallback(culprit_table, culprit_reason)
    /\ pc' = "join_returned"
    /\ UNCHANGED <<query, tables, table_counts, join_steps, culprit_table,
                   where_clause, prev_count, calls>>
    /\ UNCHANGED planVars
    /\ UNCHANGED suggestVars
    /\ UNCHANGED execVars

(* The queries diagnosed: up to MaxTables table references, written in one *)
(* of the styles below, with or without a WHERE clause.                    *)

MaxTables == 4

TableNamePool == <<"orders", "users", "items">>
AliasPool == <<"o", "u", "i">>
JoinTypePool ==
    << <<"JOIN">>, <<"RIGHT", "JOIN">>, <<"INNER", "JOIN">>,
       <<"CROSS", "JOIN">> >>
OnConditionPool ==
    << <<"u.id", "=", "o.user_id">>, <<"i.order_id", "=", "o.id">>,
       <<"o.id", ">", "0">>, <<>> >>

\* alias: every table has an alias; bare: no table has one; as: aliases
\* after AS, keywords in lower case; outer: OUTER joins; subquery and
\* nested: the FROM target is a subquery
QueryStyles == {"alias", "bare", "as", "outer", "subquery", "nested"}

\* The k-th table reference of a query, as its author writes it
TableAt(k, style) ==
    LET name == TableNamePool[((k - 1) % Len(TableNamePool)) + 1]
        alias == AliasPool[((k - 1) % Len(AliasPool)) + 1]
        ref == CASE style = "bare" -> <<name>>
                 [] style = "as" -> <<name, "as", alias>>
                 [] OTHER -> <<name, alias>>
        jt == JoinTypePool[((k - 2) % Len(JoinTypePool)) + 1]
        join == CASE style = "as" -> LowerStr(jt)
                  [] style = "outer" /\ jt = <<"JOIN">> -> <<"LEFT", "OUTER", "JOIN">>
                  [] style = "outer" /\ jt = <<"RIGHT", "JOIN">> ->
                         <<"RIGHT", "OUTER", "JOIN">>
                  [] OTHER -> jt
        cond == OnConditionPool[((k - 2) % Len(OnConditionPool)) + 1]
        on == IF cond = <<>> THEN <<>>
              ELSE <<IF style = "as" THEN "on" ELSE "ON">> \o cond
    IN  IF k > 1 THEN join \o ref \o on
        ELSE CASE style = "subquery" -> <<"FROM", "(SELECT", "1)", "x">>
               [] style = "nested" ->
                      <<"FROM", "(SELECT", "*", "FROM", "t)", "x">>
               [] style = "as" -> <<"from">> \o ref
               [] OTHER -> <<"FROM">> \o ref

WhereClauses == {<<>>, <<"WHERE", "o.total", ">", "100">>}

\* The tokens of a query with n table references
QueryText(style, n, where) ==
    <<"SELECT", "*">> \o ConcatAll([k \in 1..n |-> TableAt(k, style)])
    \o (IF style = "as" THEN LowerStr(where) ELSE where)

IdlePlan ==
    /\ metrics = PlanMetrics
    /\ slow_threshold_ms = 0
    /\ raised = NoExc
    /\ IdleScore
    /\ IdlePlanArgs

InitJoin ==
    /\ pc = "join_call"
    /\ \E style \in QueryStyles, n \in 0..MaxTables, w \in WhereClauses :
          query = QueryText(style, n, w)
    /\ tables = <<>>
    /\ table_counts = <<>>
    /\ join_steps = <<>>
    /\ culprit_table = None
    /\ culprit_reason = <<>>
    /\ where_clause = <<>>
    /\ prev_count = -1
    /\ calls = <<>>
    /\ IdlePlan
    /\ IdleSuggest
    /\ IdleExec

NextJoin ==
    \/ ExtractTables
    \/ CountTable
    \/ CheckEmptyTables
    \/ CountJoinStep
    \/ CountWithWhere
    \/ ReturnDiagnostic

SpecJoin == InitJoin /\ [][NextJoin]_vars

---------------------------------------------------------------------------
(* Claims about diagnose_empty_join, checked under SpecJoin.               *)

\* The queries sent to the connector, in order, with the connector's answers
Executed == SelectSeq(calls, LAMBDA c : c.op = "execute")

\* The COUNT query of the i-th parsed table was answered with 0 rows
SucceededEmpty(i) ==
    /\ i <= Len(Executed)
    /\ Executed[i].sql = CountTableSql(tables[i].table_name)
    /\ Executed[i].outcome = [row_count |-> 0, error |-> None]

(* C9: if the COUNT query of at least one parsed table succeeds with 0     *)
(* rows, the diagnostic returned names the first such table in parse       *)
(* order as culprit_table, culprit_reason mentions "0 rows", join_steps is *)
(* empty, and the queries sent are exactly the COUNT queries of the parsed *)
(* tables, one per table: no join-step query and no WHERE query.           *)

C9_Precondition ==
    /\ pc = "join_returned"
    /\ \E i \in 1..Len(tables) : SucceededEmpty(i)

C9_EmptyTableShortCircuit ==
    C9_Precondition =>
        LET first == CHOOSE i \in 1..Len(tables) :
                        /\ SucceededEmpty(i)
                        /\ \A j \in 1..(i - 1) : ~SucceededEmpty(j)
        IN  /\ culprit_table = PyStr(<<tables[first].table_name>>)
            /\ Contains(culprit_reason, <<"0", "rows">>)
            /\ join_steps = <<>>
            /\ [i \in 1..Len(Executed) |-> Executed[i].sql]
                   = [i \in 1..Len(tables) |-> CountTableSql(tables[i].table_name)]

C9_Witness ==
    /\ C9_Precondition
    /\ Len(tables) = 3
    /\ Executed[1].outcome.error # None
    /\ SucceededEmpty(2)
    /\ SucceededEmpty(3)
    /\ culprit_table = PyStr(<<tables[2].table_name>>)
    /\ Len(Executed) = 3

(* C10 as stated: when n >= 2 tables are parsed and no table is found      *)
(* empty, join_steps has n-1 entries numbered 1..n-1 in order, entry i     *)
(* lists tables[0..i], every step is executed and recorded even after a    *)
(* culprit has been identified, and if the count of step 1 is 0 the        *)
(* culprit is tables[1].                                                   *)

C10_Precondition ==
    /\ pc = "join_returned"
    /\ Len(tables) >= 2
    /\ EmptyTables(table_counts) = <<>>

AllStepsRecorded ==
    LET n == Len(tables)
    IN  /\ Len(join_steps) = n - 1
        /\ \A i \in 1..(n - 1) :
              /\ join_steps[i].step = i
              /\ join_steps[i].tables_joined
                     = [k \in 1..(i + 1) |-> tables[k].table_name]
              /\ Len(Executed) >= n + i
              /\ Executed[n + i].sql = CountJoinStepSql(tables, i, <<>>)
              /\ join_steps[i].row_count = Executed[n + i].outcome.row_count

C10_JoinStepsRecorded ==
    C10_Precondition =>
        /\ AllStepsRecorded
        /\ join_steps[1].row_count = 0
              => culprit_table = PyStr(<<tables[2].table_name>>)

\* Step i is a qualifying transition: its count is 0 while the count of
\* step i-1 was nonzero, or it is step 1
QualifyingTransition(i) ==
    /\ join_steps[i].row_count = 0
    /\ (i = 1 \/ join_steps[i - 1].row_count # 0)

(* C11 as stated: the first qualifying transition is authoritative: the    *)
(* culprit_table returned is the table added at the smallest step whose    *)
(* count is 0 while the previous step's count was nonzero (or which is     *)
(* step 1); a later step that again drops from nonzero to 0 does not       *)
(* replace it.                                                             *)

C11_FirstTransitionWins ==
    (/\ pc = "join_returned"
     /\ \E i \in 1..Len(join_steps) : QualifyingTransition(i))
    => LET first == CHOOSE i \in 1..Len(join_steps) :
                       /\ QualifyingTransition(i)
                       /\ \A j \in 1..(i - 1) : ~QualifyingTransition(j)
       IN  culprit_table = PyStr(<<tables[first + 1].table_name>>)

(* C12: if fewer than 2 tables are parsed from the query, the call returns *)
(* None: no diagnostic is filled in and no query, commit or rollback       *)
(* reaches the connector.                                                  *)

C12_TooFewTablesNoDiagnostic ==
    (pc # "join_call" /\ Len(_extract_tables_from_query(query)) < 2)
    => /\ pc = "join_returned_none"
       /\ calls = <<>>
       /\ table_counts = <<>>
       /\ join_steps = <<>>
       /\ culprit_table = None
       /\ culprit_reason = <<>>

C12_Witness ==
    /\ pc = "join_returned_none"
    /\ Len(tables) = 1
    /\ Contains(query, <<"JOIN">>)
    /\ calls = <<>>

(* C13: the diagnostic returned has culprit_table "WHERE clause" exactly   *)
(* when no table is empty, no join step is a qualifying transition, the    *)
(* query has a WHERE clause, the count of the last join step is positive   *)
(* and the count returned for the full chain with the WHERE clause is 0    *)
(* (the count of a failed query is 0); the query with the WHERE clause is  *)
(* sent at most once, and exactly when no culprit was found and the query  *)
(* has a WHERE clause.                                                     *)

C13_WhereClauseCulprit ==
    pc = "join_returned" =>
        LET w == _extract_where_clause(query)
            hasWhere == \E i \in 1..Len(query) : Lower(query[i]) = "where"
            whereSql == CountJoinStepSql(tables, Len(tables) - 1, w)
            sent == {i \in 1..Len(Executed) :
                        w # <<>> /\ Executed[i].sql = whereSql}
            undetermined ==
                /\ EmptyTables(table_counts) = <<>>
                /\ \A i \in 1..Len(join_steps) : ~QualifyingTransition(i)
        IN  /\ Cardinality(sent) <= 1
            /\ (sent # {}) <=> (undetermined /\ hasWhere)
            /\ (culprit_table = PyStr(<<"WHERE", "clause">>))
                   <=> /\ undetermined
                       /\ hasWhere
                       /\ join_steps[Len(join_steps)].row_count > 0
                       /\ \E i \in sent : Executed[i].outcome.row_count = 0

C13_Witness ==
    /\ pc = "join_returned"
    /\ culprit_table = PyStr(<<"WHERE", "clause">>)
    /\ Len(tables) = 3
    /\ Len(Executed) = 6
    /\ Executed[6].outcome = [row_count |-> 0, error |-> None]
    /\ Contains(culprit_reason, <<"(", "o.total", ">", "100", ")">>)

\* The k-th query sent and the row recorded for it agree: the row has the
\* count and no error when the query succeeded, count 0 and the error
\* string when it raised
RowRecords(row, k) ==
    /\ k <= Len(Executed)
    /\ row.row_count = Executed[k].outcome.row_count
    /\ row.error = Executed[k].outcome.error
    /\ Executed[k].outcome.error # None
           => row.row_count = 0 /\ row.error = ErrorText

(* C14: a failing auxiliary COUNT query never aborts the diagnostic: the   *)
(* call is always at a step of its own that can go on, up to its return    *)
(* (no state stands for a raised exception); a diagnostic returned has one *)
(* TableCount per parsed table and, when no table is empty, n-1            *)
(* JoinStepResults; the row of a failed query carries the error string and *)
(* row_count 0, the other rows have error None; every query sent is        *)
(* followed by a commit when it succeeded and by a rollback when it        *)
(* raised, before the next query is sent.                                  *)

C14_FailedQueryTolerated ==
    /\ pc \in {"join_call", "count_tables", "check_empty", "join_steps",
               "where_check", "join_returned", "join_returned_none"}
    /\ pc = "count_tables" => Len(table_counts) < Len(tables)
    /\ pc = "join_steps" => Len(join_steps) < Len(tables) - 1
    /\ \A k \in 1..Len(calls) :
           calls[k].op = "execute"
           => /\ k < Len(calls)
              /\ calls[k + 1].op = IF calls[k].outcome.error = None
                                   THEN "commit" ELSE "rollback"
    /\ pc = "join_returned"
           => LET n == Len(tables)
              IN  /\ Len(table_counts) = n
                  /\ \A i \in 1..n :
                         /\ RowRecords(table_counts[i], i)
                         /\ Executed[i].sql = CountTableSql(tables[i].table_name)
                  /\ EmptyTables(table_counts) = <<>>
                         => /\ Len(join_steps) = n - 1
                            /\ \A i \in 1..(n - 1) :
                                   /\ RowRecords(join_steps[i], n + i)
                                   /\ Executed[n + i].sql
                                          = CountJoinStepSql(tables, i, <<>>)

C14_Witness ==
    /\ pc = "join_returned"
    /\ Len(tables) = 3
    /\ table_counts[1].error = None /\ table_counts[1].row_count = 3
    /\ table_counts[2].error = ErrorText /\ table_counts[2].row_count = 0
    /\ table_counts[3].error = None
    /\ Len(join_steps) = 2
    /\ join_steps[1].error = ErrorText
    /\ join_steps[2].error = None /\ join_steps[2].row_count = 3
    /\ Len(SelectSeq(calls, LAMBDA c : c.op = "rollback")) = 2

(* C15 as stated: for a query that writes its table references without    *)
(* aliases, every TableInfo parsed has alias equal to table_name, for the  *)
(* base FROM table as for the JOINed tables, whatever token follows the    *)
(* table name (a JOIN keyword, ON, WHERE or the end of the text).          *)

C15_AliasDefaultsToTableName ==
    (/\ pc # "join_call"
     /\ \E n \in 0..MaxTables, w \in WhereClauses :
            query = QueryText("bare", n, w))
    => \A i \in 1..Len(tables) : tables[i].alias = tables[i].table_name

(* C16 as stated: every TableInfo parsed has join_type among FROM, JOIN,   *)
(* LEFT JOIN, RIGHT JOIN, FULL JOIN, CROSS JOIN and INNER JOIN, also for   *)
(* queries that write LEFT OUTER JOIN, RIGHT OUTER JOIN or FULL OUTER      *)
(* JOIN, and on_condition is empty for the base FROM table.                *)

C16_JoinTypeEnumerated ==
    pc # "join_call"
    => \A i \in 1..Len(tables) :
          /\ tables[i].join_type \in
                 {<<"FROM">>, <<"JOIN">>, <<"LEFT", "JOIN">>,
                  <<"RIGHT", "JOIN">>, <<"FULL", "JOIN">>,
                  <<"CROSS", "JOIN">>, <<"INNER", "JOIN">>}
          /\ tables[i].join_type = <<"FROM">>
                 => tables[i].on_condition = <<>>

---------------------------------------------------------------------------
(* generate_suggestions, suggestions.py.  The query is the sequence of its *)
(* lexemes: a maximal run of word characters, a maximal run of whitespace, *)
(* or one symbol or operator.  A message is the sequence of its words; a   *)
(* quote, the parts of a dotted column and the decimals of a number are    *)
(* words of their own, and the dash of a message is "-".                   *)

Blank == {" ", "\n"}

\* kw in query.strip().upper(): the lexemes of the vocabulary in which the
\* characters of kw occur, in any case
HasText(text, kw) ==
    LET containing ==
            CASE kw = "WHERE" -> {"WHERE", "where", "somewhere"}
              [] kw = "JOIN" -> {"JOIN", "join", "joined_at"}
              [] kw = "LIMIT" -> {"LIMIT", "limit"}
              [] kw = "TOP" -> {"TOP", "top", "stop_id"}
    IN  \E i \in 1..Len(text) : text[i] \in containing

\* sqlparse.parse(query)[0].get_type().upper(): the first keyword of the
\* statement when it is a DML or DDL keyword, else UNKNOWN, which is
\* truthy, so the fallback on the first token is never taken
get_query_type(text) ==
    LET words == SelectSeq(text, LAMBDA l : l \notin Blank)
    IN  IF text = <<>> THEN "OTHER"
        ELSE IF words # <<>> /\ Upper(words[1]) \in
                    {"SELECT", "INSERT", "UPDATE", "DELETE", "CREATE"}
             THEN Upper(words[1])
        ELSE "UNKNOWN"

\* re.findall(r"(\b[\w]+(?:\.[\w]+)?)\s*(?:=|!=|<>|>=|<=|>|<|\bIN\b|\bLIKE\b|
\* \bBETWEEN\b|\bIS\b)", where_clause, re.IGNORECASE), from lexeme p on
RECURSIVE ColumnMatches(_, _)
ColumnMatches(c, p) ==
    IF p > Len(c) THEN <<>>
    ELSE LET IsOp(k) ==
                 /\ k <= Len(c)
                 /\ \/ c[k] \in {"=", "!=", "<>", ">=", "<=", ">", "<"}
                    \/ Lower(c[k]) \in {"in", "like", "between", "is"}
             OpAt(k) ==
                 IF IsOp(k) THEN k
                 ELSE IF k <= Len(c) /\ c[k] \in Blank /\ IsOp(k + 1)
                      THEN k + 1
                 ELSE 0
             dotted == /\ IsWord(c[p])
                       /\ p + 2 <= Len(c)
                       /\ c[p + 1] = "."
                       /\ IsWord(c[p + 2])
                       /\ OpAt(p + 3) > 0
         IN  IF dotted
             THEN <<SubSeq(c, p, p + 2)>> \o ColumnMatches(c, OpAt(p + 3) + 1)
             ELSE IF IsWord(c[p]) /\ OpAt(p + 1) > 0
             THEN << <<c[p]>> >> \o ColumnMatches(c, OpAt(p + 1) + 1)
             ELSE ColumnMatches(c, p + 1)

\* list(dict.fromkeys(columns))
KeepDuplicates(columns) == columns

RECURSIVE Dedup(_)
Dedup(columns) ==
    IF columns = <<>> THEN <<>>
    ELSE LET init == Dedup(SubSeq(columns, 1, Len(columns) - 1))
             last == columns[Len(columns)]
         IN  IF InList(last, init) THEN init ELSE Append(init, last)

_extract_where_columns(text) ==
    LET n == Len(text)
        \* re.search(r"\bWHERE\b\s+(.*?)(?:\bGROUP\b|\bORDER\b|\bLIMIT\b|
        \* \bHAVING\b|$)", query, re.IGNORECASE | re.DOTALL)
        starts == {i \in 1..(n - 1) :
                      Lower(text[i]) = "where" /\ text[i + 1] \in Blank}
        sql_keywords == {"AND", "OR", "NOT", "NULL", "TRUE", "FALSE", "IN",
                         "LIKE", "BETWEEN", "IS", "EXISTS", "ANY", "ALL",
                         "SOME"}
    IN  IF starts = {} THEN <<>>
        ELSE LET i == CHOOSE x \in starts : \A y \in starts : x <= y
                 stops == {k \in (i + 2)..n :
                              Lower(text[k]) \in
                                  {"group", "order", "limit", "having"}}
                 e == IF stops = {} THEN n + 1
                      ELSE CHOOSE x \in stops : \A y \in stops : x <= y
                 clause == SubSeq(text, i + 2, e - 1)
                 columns ==
                     SelectSeq(ColumnMatches(clause, 1),
                               LAMBDA col : ~(Len(col) = 1
                                              /\ Upper(col[1]) \in sql_keywords))
             IN  Dedup(columns)

\* for x in xs: out[field].append(prefix + x + suffix)
RECURSIVE AppendEach(_, _, _, _, _)
AppendEach(out, field, prefix, xs, suffix) ==
    IF xs = <<>> THEN out
    ELSE AppendEach(Append1(out, field, prefix \o Head(xs) \o suffix), field,
                    prefix, Tail(xs), suffix)

_analyze_select(text, m, out) ==
    LET o1 == IF \E i \in 1..(Len(text) - 2) :
                     /\ Upper(text[i]) = "SELECT"
                     /\ text[i + 1] \in Blank
                     /\ text[i + 2] = "*"
              THEN Append1(out, "suggestions",
                       <<"Avoid", "SELECT", "*", "-", "specify", "only", "the",
                         "columns", "you", "need", "to", "reduce", "I/O">>)
              ELSE out
        o2 == IF ~HasText(text, "WHERE") /\ ~HasText(text, "JOIN")
              THEN Append1(o1, "suggestions",
                       <<"No", "WHERE", "clause", "detected", "-", "consider",
                         "adding", "filters", "to", "limit", "results">>)
              ELSE o1
        o3 == IF /\ ~HasText(text, "LIMIT") /\ ~HasText(text, "TOP")
                 /\ (m.estimated_rows > 1000 \/ m.actual_rows > 1000)
              THEN Append1(o2, "suggestions",
                       <<"Large", "result", "set", "detected", "-", "consider",
                         "using", "LIMIT", "to", "restrict", "rows">>)
              ELSE o2
        o4 == IF m.has_sequential_scan
              THEN AppendEach(
                       AppendEach(o3, "warnings",
                           <<"Sequential", "Scan", "detected", "on", "table", "'">>,
                           [i \in 1..Len(m.tables_scanned) |->
                               m.tables_scanned[i].s],
                           <<"'">>),
                       "suggestions",
                       <<"Create", "index", "on", "filtered", "column:">>,
                       _extract_where_columns(text), <<>>)
              ELSE o3
        o5 == IF m.missing_index_likely
              THEN Append1(o4, "warnings",
                       <<"Missing", "index", "likely", "-", "filter", "applied",
                         "during", "sequential", "scan">>)
              ELSE o4
    IN  IF m.total_cost > 10000
        THEN Append1(o5, "warnings",
                 <<"High", "cost", "query:", "estimated", "cost", "=",
                   ToString(m.total_cost), ".0">>)
        ELSE o5

_analyze_dml(text, query_type, m, out) ==
    LET o1 == IF query_type = "INSERT"
              THEN Append1(out, "suggestions",
                       <<"Consider", "batch", "INSERT", "operations", "for",
                         "better", "performance", "(e.g.,", "multi-row",
                         "VALUES", "or", "COPY)">>)
              ELSE out
        o2 == IF query_type \in {"UPDATE", "DELETE"} /\ ~HasText(text, "WHERE")
              THEN Append1(o1, "warnings",
                       <<query_type, "without", "WHERE", "clause", "-", "this",
                         "affects", "ALL", "rows", "in", "the", "table">>)
              ELSE o1
        o3 == IF query_type \in {"UPDATE", "DELETE"} /\ HasText(text, "WHERE")
              THEN AppendEach(o2, "suggestions",
                       <<"Ensure", "index", "exists", "on", "WHERE", "column:">>,
                       _extract_where_columns(text), <<>>)
              ELSE o2
        o4 == Append1(o3, "suggestions",
                  <<"Check", "for", "unnecessary", "triggers", "that", "may",
                    "slow", "down", "DML", "operations">>)
    IN  Append1(o4, "suggestions",
            <<"Review", "foreign", "key", "constraints", "-", "cascading",
              "actions", "can", "impact", "performance">>)

NestedLoopWarning ==
    <<"Nested", "Loop", "Join", "detected", "-", "may", "be", "slow", "on",
      "large", "datasets">>
HashJoinWarning ==
    <<"Hash", "Join", "detected", "-", "acceptable", "for", "large", "joins",
      "but", "uses", "more", "memory">>
LargeSortWarning ==
    <<"Large", "sort", "operation", "detected", "(possibly", "spilling", "to",
      "disk)">>
BitmapWarning ==
    <<"Bitmap", "Heap", "Scan", "detected", "-", "partial", "index", "usage">>
TempDiskWarning ==
    <<"Temporary", "disk", "usage", "detected", "-", "work_mem", "may", "be",
      "too", "low">>

\* the checks of has_large_sort, has_bitmap_heap_scan, has_temp_disk_usage
SortBitmapTempChecks(m, o2) ==
    LET o3 == IF m.has_large_sort
              THEN Append1(Append1(o2, "warnings", LargeSortWarning),
                       "suggestions",
                       <<"Add", "index", "on", "ORDER", "BY", "/", "GROUP", "BY",
                         "columns", "to", "avoid", "in-memory", "sorting">>)
              ELSE o2
        o4 == IF m.has_bitmap_heap_scan
              THEN Append1(Append1(o3, "warnings", BitmapWarning),
                       "suggestions",
                       <<"Consider", "a", "more", "selective", "index", "or",
                         "adjust", "query", "filters">>)
              ELSE o3
    IN  IF m.has_temp_disk_usage
        THEN Append1(Append1(o4, "warnings", TempDiskWarning), "suggestions",
                 <<"Increase", "work_mem", "setting", "or", "optimize", "query",
                   "to", "reduce", "data", "volume">>)
        ELSE o4

VerifyJoinConditions ==
    <<"Verify", "join", "conditions", "have", "proper", "indexes", "to",
      "avoid", "nested", "loop", "scans">>

_analyze_plan_metrics_hash_first(m, out) ==
    LET o1 == IF m.has_hash_join
              THEN Append1(out, "warnings", HashJoinWarning)
              ELSE out
        o2 == IF m.has_nested_loop
              THEN Append1(Append1(o1, "warnings", NestedLoopWarning),
                       "suggestions", VerifyJoinConditions)
              ELSE o1
    IN  SortBitmapTempChecks(m, o2)

_analyze_plan_metrics(m, out) ==
    LET o1 == IF m.has_nested_loop
              THEN Append1(Append1(out, "warnings", NestedLoopWarning),
                       "suggestions", VerifyJoinConditions)
              ELSE out
        o2 == IF m.has_hash_join
              THEN Append1(o1, "warnings", HashJoinWarning)
              ELSE o1
    IN  SortBitmapTempChecks(m, o2)

\* if metrics.execution_time_ms > slow_threshold_ms
AtOrOverThreshold(m, threshold) == m.execution_time_ms >= threshold

OverThreshold(m, threshold) == m.execution_time_ms > threshold

generate_suggestions(text, m, threshold) ==
    LET query_type == get_query_type(text)
        o0 == [warnings |-> <<>>, suggestions |-> <<>>]
        o1 == IF OverThreshold(m, threshold)
              THEN Append1(o0, "warnings",
                       <<"SLOW", "QUERY:", "Execution", "time",
                         ToString(m.execution_time_ms), ".00", "ms", "exceeds",
                         "threshold", "of", ToString(threshold), "ms">>)
              ELSE o0
        o2 == IF query_type = "SELECT" THEN _analyze_select(text, m, o1)
              ELSE IF query_type \in {"INSERT", "UPDATE", "DELETE"}
                   THEN _analyze_dml(text, query_type, m, o1)
              ELSE o1
    IN  _analyze_plan_metrics(m, o2)

\* The statements analysed, without their WHERE clause
StatementHeads ==
    {<<>>,
     <<"SELECT", " ", "*", " ", "FROM", " ", "users">>,
     <<"SELECT", " ", "stop_id", " ", "FROM", " ", "users">>,
     <<"SELECT", " ", "joined_at", " ", "FROM", " ", "users">>,
     <<"select", "\n", "*", " ", "from", " ", "orders", " ", "o", " ", "join",
       " ", "users", " ", "u", " ", "on", " ", "u", ".", "id", " ", "=", " ",
       "o", ".", "user_id">>,
     <<"DELETE", " ", "FROM", " ", "users">>,
     <<"DELETE", " ", "FROM", " ", "somewhere">>,
     <<"UPDATE", " ", "users", " ", "SET", " ", "age", " ", "=", " ", "1">>,
     <<"INSERT", " ", "INTO", " ", "users", " ", "VALUES", " ", "(", "1", ")">>,
     <<"VACUUM", " ", "users">>}

\* The WHERE clauses and what follows them
StatementTails ==
    {<<>>,
     <<"WHERE", " ", "status", " ", "=", " ", "'", "active", "'", " ", "AND",
       " ", "age", " ", ">", " ", "18">>,
     <<"WHERE", " ", "id", "=", "5">>,
     <<"WHERE", "(", "id", "=", "5", ")">>,
     <<"where", " ", "u", ".", "id", " ", "IN", " ", "(", "1", ",", " ", "2",
       ")", " ", "AND", " ", "name", " ", "NOT", " ", "LIKE", " ", "'", "a",
       "'">>,
     <<"WHERE", " ", "age", " ", ">=", " ", "18", " ", "OR", " ", "age", " ",
       "<", " ", "65", " ", "OR", " ", "status", " ", "<>", " ", "'", "x", "'",
       " ", "OR", " ", "age", " ", "!=", " ", "30">>,
     <<"WHERE", "\n", "deleted_at", " ", "is", " ", "null", " ", "GROUP", " ",
       "BY", " ", "status", " ", "HAVING", " ", "total", " ", ">", " ", "1">>,
     <<"WHERE", " ", "1", " ", "=", " ", "1", " ", "AND", " ", "s", ".", "u",
       ".", "id", " ", "=", " ", "2">>,
     <<"WHERE", " ", "x", " ", "BETWEEN", " ", "1", " ", "AND", " ", "2", " ",
       "LIMIT", " ", "10">>}

\* The text of a statement
StatementText(head, tail) ==
    IF head = <<>> \/ tail = <<>> THEN head \o tail
    ELSE head \o <<" ">> \o tail

SuggestExecTimes == {0, 10, 11}

SuggestThresholds == {10}

\* total_cost and the row counts: the defaults of PlanMetrics, or values
\* above those the comparisons of _analyze_select are made with
SizeLevels == {"default", "over"}

InitSuggest ==
    /\ pc = "suggest_call"
    /\ \E head \in StatementHeads, tail \in StatementTails :
          query = StatementText(head, tail)
    /\ \E f \in FlagValuations, size \in SizeLevels, t \in SuggestExecTimes :
          /\ f["has_full_table_scan"] = f["has_sequential_scan"]
          /\ metrics =
                 [WithFlags(PlanMetrics, f) EXCEPT
                     !.total_cost = IF size = "over" THEN HighCost + 1 ELSE 0,
                     !.estimated_rows = IF size = "over" THEN 1001 ELSE 0,
                     !.tables_scanned =
                         IF f["has_sequential_scan"]
                         THEN <<PyStr(<<"orders">>), PyStr(<<"users">>)>>
                         ELSE <<>>,
                     !.execution_time_ms = t]
    /\ slow_threshold_ms \in SuggestThresholds
    /\ score = 0
    /\ IdlePlanArgs
    /\ tables = <<>>
    /\ table_counts = <<>>
    /\ join_steps = <<>>
    /\ culprit_table = None
    /\ culprit_reason = <<>>
    /\ where_clause = <<>>
    /\ prev_count = -1
    /\ calls = <<>>
    /\ IdleSuggest
    /\ IdleExec

GenerateSuggestions ==
    /\ pc = "suggest_call"
    /\ LET r == generate_suggestions(query, metrics, slow_threshold_ms)
       IN  /\ warnings' = r.warnings
           /\ suggestions' = r.suggestions
    /\ pc' = "suggest_returned"
    /\ UNCHANGED <<planVars, joinVars, where_cols>>
    /\ UNCHANGED execVars

NextSuggest == GenerateSuggestions

SpecSuggest == InitSuggest /\ [][NextSuggest]_vars

---------------------------------------------------------------------------
(* execute_query and execute_all_queries, executor.py.  The driver decides *)
(* how each statement ends: MainOutcomes names the call of the main        *)
(* statement that raises, if any, ExplainOutcomes what the EXPLAIN         *)
(* statement does; a plan is one row of text.                              *)

MaxQueries == 3

\* (sql_statement, line_number) tuples of the input
QueryPool ==
    {<< <<"SELECT", " ", "*", " ", "FROM", " ", "users">>, 1 >>,
     << <<"DELETE", " ", "FROM", " ", "users">>, 4 >>}

RowCounts == {2}
RowCountAttrs == {-1, 2}

PlanDetail == <<"SCAN", " ", "users">>

\* (end_time - start_time) * 1000.0 of an execute that returned
ElapsedMs == 7

\* class QueryResult, with the defaults of its fields
QueryResult(query_number, query_text, query_type, line_number) ==
    [query_number |-> query_number, query_text |-> query_text,
     query_type |-> query_type, line_number |-> line_number,
     execution_time_ms |-> 0, rows_affected |-> 0, success |-> TRUE,
     error_message |-> None, explain_output |-> None, explain_data |-> None,
     warnings |-> <<>>, suggestions |-> <<>>, performance_score |-> None,
     is_slow |-> FALSE]

\* One call on the cursor or the connector, and how it ended
Call(op, sql, outcome) == [op |-> op, sql |-> sql, outcome |-> outcome]

MainOutcomes(query_type) ==
    {"ok", "execute", "commit"}
    \cup (IF query_type = "SELECT" THEN {"fetchall"} ELSE {})

ExplainOutcomes == {"plan", "no_rows", "execute"}

\* The calls of the try block of execute_query up to the one that raises,
\* then connector.rollback() of the except branch
MainCalls(text, query_type, main) ==
    LET steps == <<"execute">>
                 \o (IF query_type = "SELECT" THEN <<"fetchall">> ELSE <<>>)
                 \o <<"commit">>
        last == IF main = "ok" THEN Len(steps)
                ELSE CHOOSE k \in 1..Len(steps) : steps[k] = main
    IN  [k \in 1..last |->
            Call(steps[k], IF steps[k] = "execute" THEN text ELSE <<>>,
                 IF steps[k] = main THEN "raised" ELSE "ok")]
        \o (IF main = "ok" THEN <<>> ELSE <<Call("rollback", <<>>, "ok")>>)

\* explain_prefix of _run_explain_postgres
ExplainPrefix(analyze) ==
    <<"EXPLAIN", " ", "(FORMAT", " ", "JSON,", " ", "BUFFERS", " ", "ON">>
    \o (IF analyze THEN <<",", " ", "ANALYZE", " ", "ON">> ELSE <<>>)
    \o <<")">>

\* What a try block of _run_explain_* does after its first statements:
\* fetchall, commit and the text built from the rows, or the rollback of
\* the except branch
ExplainTail(first, ex, text) ==
    IF ex = "execute"
    THEN [calls |-> SubSeq(first, 1, Len(first) - 1)
                    \o <<[first[Len(first)] EXCEPT !.outcome = "raised"],
                         Call("rollback", <<>>, "ok")>>,
          output |-> None]
    ELSE [calls |-> first \o <<Call("fetchall", <<>>, "ok"),
                               Call("commit", <<>>, "ok")>>,
          output |-> IF ex = "plan" THEN PyStr(text) ELSE None]

_run_explain_postgres(text, analyze, ex) ==
    ExplainTail(<<Call("execute", ExplainPrefix(analyze) \o <<" ">> \o text, "ok")>>,
                ex, PlanDetail)

\* SET SHOWPLAN_TEXT ON, the query, the rows, SET SHOWPLAN_TEXT OFF
_run_explain_sqlserver(text, ex) ==
    LET on == Call("execute", <<"SET", " ", "SHOWPLAN_TEXT", " ", "ON">>, "ok")
        off == Call("execute", <<"SET", " ", "SHOWPLAN_TEXT", " ", "OFF">>, "ok")
    IN  IF ex = "execute"
        THEN ExplainTail(<<on, Call("execute", text, "ok")>>, ex, PlanDetail)
        ELSE [calls |-> <<on, Call("execute", text, "ok"),
                          Call("fetchall", <<>>, "ok"), off,
                          Call("commit", <<>>, "ok")>>,
              output |-> IF ex = "plan" THEN PyStr(PlanDetail) ELSE None]

\* EXPLAIN QUERY PLAN; a row without parent is written "|--" + detail
_run_explain_sqlite(text, ex) ==
    ExplainTail(<<Call("execute",
                       <<"EXPLAIN", " ", "QUERY", " ", "PLAN", " ">> \o text, "ok")>>,
                ex, <<"|--">> \o PlanDetail)

_run_explain(db, text, analyze, ex) ==
    IF db = "postgres" THEN _run_explain_postgres(text, analyze, ex)
    ELSE IF db = "sqlserver" THEN _run_explain_sqlserver(text, ex)
    ELSE IF db = "sqlite" THEN _run_explain_sqlite(text, ex)
    ELSE [calls |-> <<>>, output |-> None]

\* An EXPLAIN that is run whatever the main statement did
ExplainForSelect(success, query_type) == query_type = "SELECT"

\* if result.success and query_type == "SELECT"
ExplainApplies(success, query_type) == success /\ query_type = "SELECT"

\* execute_query: the result, and the calls made on the connector
execute_query(db, text, query_number, analyze, line_number, main, n, ex) ==
    LET query_type == get_query_type(text)
        result == QueryResult(query_number, text, query_type, line_number)
        r1 == IF main = "ok"
              THEN [result EXCEPT
                       !.execution_time_ms = ElapsedMs,
                       !.rows_affected =
                           IF query_type = "SELECT" \/ n >= 0 THEN n ELSE @]
              ELSE [result EXCEPT
                       !.execution_time_ms =
                           IF main = "execute" THEN @ ELSE ElapsedMs,
                       !.rows_affected =
                           IF main = "commit" /\ (query_type = "SELECT" \/ n >= 0)
                           THEN n ELSE @,
                       !.success = FALSE,
                       !.error_message = ErrorText]
        explain == IF ExplainApplies(r1.success, query_type)
                   THEN _run_explain(db, text, analyze, ex)
                   ELSE [calls |-> <<>>, output |-> None]
    IN  [result |-> [r1 EXCEPT !.explain_output = explain.output],
         calls |-> MainCalls(text, query_type, main) \o explain.calls]

\* A loop that goes on after a failed query whatever continue_on_error is
NeverStops(success, continue) == FALSE

\* if not result.success and not continue_on_error: break
StopsOnError(success, continue) == ~success /\ ~continue

InitExec ==
    /\ pc = "exec_loop"
    /\ queries \in SeqsUpTo(QueryPool, MaxQueries)
    /\ explain_analyze \in BOOLEAN
    /\ continue_on_error \in BOOLEAN
    /\ results = <<>>
    /\ db_type \in SupportedDbTypes
    /\ metrics = PlanMetrics
    /\ slow_threshold_ms = 0
    /\ score = 0
    /\ explain_output = None
    /\ execution_time_ms = 0
    /\ raised = NoExc
    /\ IdleJoin
    /\ IdleSuggest

\* One iteration of the loop of execute_all_queries: execute_query on the
\* next query, results.append, and the break
ExecuteQuery ==
    /\ pc = "exec_loop"
    /\ Len(results) < Len(queries)
    /\ LET idx == Len(results) + 1
           text == queries[idx][1]
           type == get_query_type(text)
       IN  \E main \in MainOutcomes(type),
              n \in (IF type = "SELECT" THEN RowCounts ELSE RowCountAttrs) :
           \E ex \in (IF ExplainApplies(main = "ok", type)
                      THEN ExplainOutcomes ELSE {"not run"}) :
              LET r == execute_query(db_type, text, idx, explain_analyze,
                                     queries[idx][2], main, n, ex)
              IN  /\ results' = Append(results, r.result)
                  /\ calls' = calls \o r.calls
                  /\ pc' = IF StopsOnError(r.result.success, continue_on_error)
                           THEN "exec_returned"
                           ELSE "exec_loop"
    /\ UNCHANGED <<queries, explain_analyze, continue_on_error>>
    /\ UNCHANGED planVars
    /\ UNCHANGED <<query, tables, table_counts, join_steps, culprit_table,
                   culprit_reason, where_clause, prev_count>>
    /\ UNCHANGED suggestVars

\* The loop ends with the last query; return results
ReturnResults ==
    /\ pc = "exec_loop"
    /\ Len(results) = Len(queries)
    /\ pc' = "exec_returned"
    /\ UNCHANGED <<planVars, joinVars, suggestVars, execVars>>

NextExec ==
    \/ ExecuteQuery
    \/ ReturnResults

SpecExec == InitExec /\ [][NextExec]_vars

\* run_analysis, for one successful result: analyze_query_plan on its
\* explain_output, then generate_suggestions on its text and the metrics
AnalysedQueries ==
    {<<"SELECT", " ", "*", " ", "FROM", " ", "users">>,
     StatementText(<<"SELECT", " ", "stop_id", " ", "FROM", " ", "users">>,
                   <<"WHERE", " ", "id", "=", "5">>)}

InitAnalysis ==
    /\ pc = "plan_call"
    /\ query \in AnalysedQueries
    /\ \/ explain_output = None
       \/ explain_output \in LineTexts
       \/ \E i \in 1..Len(WellFormedDocs \o TreeDocs) :
              explain_output = JsonText((WellFormedDocs \o TreeDocs)[i])
    /\ execution_time_ms \in PlanExecTimes
    /\ slow_threshold_ms \in PlanThresholds
    /\ db_type \in DbTypes
    /\ metrics = PlanMetrics
    /\ raised = NoExc
    /\ IdleScore
    /\ tables = <<>>
    /\ table_counts = <<>>
    /\ join_steps = <<>>
    /\ culprit_table = None
    /\ culprit_reason = <<>>
    /\ where_clause = <<>>
    /\ prev_count = -1
    /\ calls = <<>>
    /\ IdleSuggest
    /\ IdleExec

SuggestForPlan ==
    /\ pc = "plan_returned"
    /\ query # None
    /\ LET r == generate_suggestions(query, metrics, slow_threshold_ms)
       IN  /\ warnings' = r.warnings
           /\ suggestions' = r.suggestions
    /\ pc' = "analysis_done"
    /\ UNCHANGED <<planVars, joinVars, where_cols>>
    /\ UNCHANGED execVars

NextAnalysis ==
    \/ AnalyzeQueryPlan
    \/ SuggestForPlan

SpecAnalysis == InitAnalysis /\ [][NextAnalysis]_vars

InitWhere ==
    /\ pc = "where_call"
    /\ \E head \in StatementHeads, tail \in StatementTails :
          query = StatementText(head, tail)
    /\ tables = <<>>
    /\ table_counts = <<>>
    /\ join_steps = <<>>
    /\ culprit_table = None
    /\ culprit_reason = <<>>
    /\ where_clause = <<>>
    /\ prev_count = -1
    /\ calls = <<>>
    /\ IdlePlan
    /\ IdleSuggest
    /\ IdleExec

ExtractWhereColumns ==
    /\ pc = "where_call"
    /\ where_cols' = _extract_where_columns(query)
    /\ pc' = "where_returned"
    /\ UNCHANGED <<planVars, joinVars, warnings, suggestions>>
    /\ UNCHANGED execVars

NextWhere == ExtractWhereColumns

SpecWhere == InitWhere /\ [][NextWhere]_vars

---------------------------------------------------------------------------
(* Claims on generate_suggestions *)

IsSlowQueryWarning(w) == Len(w) >= 2 /\ w[1] = "SLOW" /\ w[2] = "QUERY:"

SelectStarFromUsers == <<"SELECT", " ", "*", " ", "FROM", " ", "users">>

(* C17: the warnings returned by generate_suggestions hold a SLOW QUERY    *)
(* warning exactly when metrics.execution_time_ms > slow_threshold_ms;     *)
(* there is at most one and it is the first warning.  SELECT * FROM users  *)
(* with default metrics gives the explicit-columns suggestion and the      *)
(* add-filters suggestion and no slow-query warning.                       *)
C17_SlowQueryWarning ==
    pc = "suggest_returned" =>
        LET slow == {i \in 1..Len(warnings) : IsSlowQueryWarning(warnings[i])}
        IN  /\ slow # {} <=> metrics.execution_time_ms > slow_threshold_ms
            /\ slow \subseteq {1}
            /\ query = SelectStarFromUsers /\ metrics = PlanMetrics =>
                   /\ slow = {}
                   /\ \E i \in 1..Len(suggestions) :
                          SubSeq(suggestions[i], 1, 3) = <<"Avoid", "SELECT", "*">>
                   /\ \E i \in 1..Len(suggestions) :
                          SubSeq(suggestions[i], 1, 3) = <<"No", "WHERE", "clause">>

C17_Witness ==
    /\ pc = "suggest_returned"
    /\ metrics.execution_time_ms > slow_threshold_ms
    /\ Len(warnings) > 2
    /\ IsSlowQueryWarning(warnings[1])
    /\ get_query_type(query) = "SELECT"

HasWhereToken(text) == \E i \in 1..Len(text) : Lower(text[i]) = "where"

IsAllRowsWarning(w) == Contains(w, <<"affects", "ALL", "rows">>)

EnsureIndex == <<"Ensure", "index", "exists", "on", "WHERE", "column:">>

(* C18: for a statement classified as UPDATE or DELETE the warnings hold   *)
(* the "affects ALL rows" warning exactly when no lexeme of the statement  *)
(* is the keyword WHERE, whatever the table and column names are; with a   *)
(* WHERE keyword the suggestions hold one "Ensure index exists" entry per  *)
(* distinct extracted WHERE column.  An INSERT never gets the warning.     *)
C18_AllRowsWarning ==
    pc = "suggest_returned" =>
        LET query_type == get_query_type(query)
            all_rows == {i \in 1..Len(warnings) : IsAllRowsWarning(warnings[i])}
            ensure == SelectSeq(suggestions,
                                LAMBDA sg : SubSeq(sg, 1, 6) = EnsureIndex)
            columns == _extract_where_columns(query)
        IN  /\ query_type \in {"UPDATE", "DELETE"} =>
                   /\ all_rows # {} <=> ~HasWhereToken(query)
                   /\ HasWhereToken(query) =>
                          /\ ensure = [i \in 1..Len(columns) |->
                                          EnsureIndex \o columns[i]]
                          /\ \A i, j \in 1..Len(ensure) :
                                 ensure[i] = ensure[j] => i = j
            /\ query_type = "INSERT" => all_rows = {}

ExcludedKeywords ==
    {"AND", "OR", "NOT", "NULL", "TRUE", "FALSE", "IN", "LIKE", "BETWEEN",
     "IS", "EXISTS", "ANY", "ALL", "SOME"}

\* Lexeme k of clause c, or the one after a run of whitespace at k, is a
\* comparison or membership operator
OperatorFollows(c, k) ==
    LET IsOp(j) ==
            /\ j <= Len(c)
            /\ \/ c[j] \in {"=", "!=", "<>", ">=", "<=", ">", "<"}
               \/ Upper(c[j]) \in {"IN", "LIKE", "BETWEEN", "IS"}
    IN  IsOp(k) \/ (k <= Len(c) /\ c[k] \in Blank /\ IsOp(k + 1))

\* The token word.word or word at lexeme p of clause c when an operator
\* follows it, <<>> when there is none; the second word of such a
\* word.word is part of that token and no token of its own
ColumnAt(c, p) ==
    LET Dotted(q) == /\ q >= 1
                     /\ q + 2 <= Len(c)
                     /\ IsWord(c[q])
                     /\ c[q + 1] = "."
                     /\ IsWord(c[q + 2])
                     /\ OperatorFollows(c, q + 3)
    IN  IF Dotted(p) THEN SubSeq(c, p, p + 2)
        ELSE IF IsWord(c[p]) /\ OperatorFollows(c, p + 1) /\ ~Dotted(p - 2)
             THEN <<c[p]>>
        ELSE <<>>

\* r lists the tokens of clause c that an operator follows, the excluded
\* keywords left out, each once, in the order of their first occurrences
ListsColumns(r, c) ==
    LET Listed(p) == /\ ColumnAt(c, p) # <<>>
                     /\ ~(Len(ColumnAt(c, p)) = 1
                          /\ Upper(c[p]) \in ExcludedKeywords)
        First(col) == CHOOSE p \in 1..Len(c) :
                          /\ ColumnAt(c, p) = col
                          /\ \A q \in 1..(p - 1) : ColumnAt(c, q) # col
    IN  /\ \A p \in 1..Len(c) : Listed(p) => InList(ColumnAt(c, p), r)
        /\ \A i \in 1..Len(r) : \E p \in 1..Len(c) :
               Listed(p) /\ ColumnAt(c, p) = r[i]
        /\ \A i, j \in 1..Len(r) : i < j => First(r[i]) < First(r[j])

\* The lexemes after lexeme i up to the next GROUP, ORDER, LIMIT or HAVING
TextAfter(text, i) ==
    LET stops == {k \in (i + 1)..Len(text) :
                     Lower(text[k]) \in {"group", "order", "limit", "having"}}
    IN  SubSeq(text, i + 1,
               IF stops = {} THEN Len(text)
               ELSE (CHOOSE k \in stops : \A l \in stops : k <= l) - 1)

ExampleWhere ==
    <<"WHERE", " ", "status", " ", "=", " ", "'", "active", "'", " ", "AND",
      " ", "age", " ", ">", " ", "18">>

(* C19 as stated: for every query text _extract_where_columns returns the  *)
(* identifier[.identifier] tokens, between the keyword WHERE and the next  *)
(* GROUP, ORDER, LIMIT or HAVING or the end, that an operator follows, in  *)
(* order of first occurrence, none repeated, none an excluded keyword; the *)
(* empty list when the query has no keyword WHERE.  The example gives      *)
(* [status, age].                                                          *)
C19_Original ==
    pc = "where_returned" =>
        LET starts == {i \in 1..Len(query) : Lower(query[i]) = "where"}
        IN  /\ starts = {} => where_cols = <<>>
            /\ starts # {} =>
                   ListsColumns(where_cols, TextAfter(query,
                       CHOOSE i \in starts : \A k \in starts : i <= k))
            /\ query = ExampleWhere => where_cols = << <<"status">>, <<"age">> >>

(* C19 as amended: the same, where the WHERE clause is the text after the  *)
(* first keyword WHERE that whitespace follows, and the result is the      *)
(* empty list when no keyword WHERE is followed by whitespace.             *)
C19_WhereColumns ==
    pc = "where_returned" =>
        LET starts == {i \in 1..(Len(query) - 1) :
                          Lower(query[i]) = "where" /\ query[i + 1] \in Blank}
        IN  /\ starts = {} => where_cols = <<>>
            /\ starts # {} =>
                   ListsColumns(where_cols, TextAfter(query,
                       CHOOSE i \in starts : \A k \in starts : i <= k))
            /\ query = ExampleWhere => where_cols = << <<"status">>, <<"age">> >>

C19_Witness ==
    /\ pc = "where_returned"
    /\ get_query_type(query) = "SELECT"
    /\ where_cols = << <<"age">>, <<"status">> >>
    /\ Len(ColumnMatches(TextAfter(query, 9), 1)) = 4

\* The flags _analyze_plan_metrics tests, in the order of its tests
PlanChecks ==
    <<"has_nested_loop", "has_hash_join", "has_large_sort",
      "has_bitmap_heap_scan", "has_temp_disk_usage">>

\* The first words of the warning and of the suggestion of a flag
PlanWarningHead ==
    [has_nested_loop |-> <<"Nested", "Loop">>,
     has_hash_join |-> <<"Hash", "Join">>,
     has_large_sort |-> <<"Large", "sort">>,
     has_bitmap_heap_scan |-> <<"Bitmap", "Heap">>,
     has_temp_disk_usage |-> <<"Temporary", "disk">>]

PlanSuggestionHead ==
    [has_nested_loop |-> <<"Verify", "join">>,
     has_large_sort |-> <<"Add", "index">>,
     has_bitmap_heap_scan |-> <<"Consider", "a">>,
     has_temp_disk_usage |-> <<"Increase", "work_mem">>]

\* The entries of list, from the one numbered from on, begin with heads
EndsWith(list, from, heads) ==
    /\ Len(list) = from - 1 + Len(heads)
    /\ \A i \in 1..Len(heads) : SubSeq(list[from - 1 + i], 1, 2) = heads[i]

(* C20: both sequences returned by generate_suggestions are ordered by     *)
(* step: the slow-query warning first, then the entries of the SELECT or   *)
(* INSERT/UPDATE/DELETE checks, then the plan-metric entries in the order  *)
(* nested loop, hash join, large sort, bitmap heap scan, temp disk usage.  *)
(* The plan-metric checks apply to every statement type; each set flag     *)
(* gives its warning and its suggestion, has_hash_join a warning only.     *)
C20_EntriesOrderedByStep ==
    pc = "suggest_returned" =>
        LET set == SelectSeq(PlanChecks, LAMBDA f : metrics[f])
            with == SelectSeq(set, LAMBDA f : f \in DOMAIN PlanSuggestionHead)
            plan_warnings == [i \in 1..Len(set) |-> PlanWarningHead[set[i]]]
            plan_suggestions == [i \in 1..Len(with) |-> PlanSuggestionHead[with[i]]]
            nw == Len(warnings) - Len(set)
            ns == Len(suggestions) - Len(with)
            typed == get_query_type(query) \in
                         {"SELECT", "INSERT", "UPDATE", "DELETE"}
        IN  /\ nw >= 0 /\ EndsWith(warnings, nw + 1, plan_warnings)
            /\ ns >= 0 /\ EndsWith(suggestions, ns + 1, plan_suggestions)
            /\ \A i \in 1..nw :
                   /\ IsSlowQueryWarning(warnings[i]) => i = 1
                   /\ \A f \in DOMAIN PlanWarningHead :
                          SubSeq(warnings[i], 1, 2) # PlanWarningHead[f]
            /\ \A i \in 1..ns : \A f \in DOMAIN PlanSuggestionHead :
                   SubSeq(suggestions[i], 1, 2) # PlanSuggestionHead[f]
            /\ ~typed => /\ ns = 0
                         /\ \A i \in 1..nw : IsSlowQueryWarning(warnings[i])

C20_Witness ==
    /\ pc = "suggest_returned"
    /\ \A i \in 1..Len(PlanChecks) : metrics[PlanChecks[i]]
    /\ get_query_type(query) = "UNKNOWN"
    /\ Len(warnings) = 6
    /\ IsSlowQueryWarning(warnings[1])
    /\ Len(suggestions) = 4

---------------------------------------------------------------------------
(* Claims on the walk of a JSON plan tree *)

\* The nodes of a plan tree
RECURSIVE AllNodes(_)
AllNodes(node) ==
    LET children == Get(node, "Plans", PyList(<<>>)).items
    IN  <<node>> \o ConcatAll([i \in 1..Len(children) |-> AllNodes(children[i])])

\* The number a node gives for an attribute, 0 when it has none
Attr(node, key) == Get(node, key, PyNum(0)).n

RECURSIVE SumAttr(_, _)
SumAttr(nodes, key) ==
    IF nodes = <<>> THEN 0
    ELSE Attr(Head(nodes), key) + SumAttr(Tail(nodes), key)

\* A call on a well-formed JSON plan has returned
WalkedTree ==
    /\ pc = "plan_returned"
    /\ db_type # "sqlite"
    /\ explain_output # None
    /\ explain_output.fmt = "json"
    /\ InList(explain_output.value, WellFormedDocs \o TreeDocs)

PlanTree == explain_output.value.items[1].fields["Plan"]

(* C21: after the walk of a JSON plan tree total_cost is the highest Total *)
(* Cost of its nodes (0 when none is positive), never their sum;           *)
(* startup_cost is the Startup Cost of a node with that Total Cost;        *)
(* estimated_rows, actual_rows and the four buffer counters are the sums   *)
(* of their attributes over all nodes.                                     *)
C21_MaxCostSummedRows ==
    WalkedTree =>
        LET nodes == AllNodes(PlanTree)
            costly == {i \in 1..Len(nodes) : Attr(nodes[i], "Total Cost") > 0}
        IN  /\ \A i \in 1..Len(nodes) :
                   Attr(nodes[i], "Total Cost") <= metrics.total_cost
            /\ costly = {} => metrics.total_cost = 0
            /\ costly # {} => \E i \in costly :
                   /\ Attr(nodes[i], "Total Cost") = metrics.total_cost
                   /\ Attr(nodes[i], "Startup Cost") = metrics.startup_cost
            /\ Cardinality(costly) > 1 =>
                   metrics.total_cost < SumAttr(nodes, "Total Cost")
            /\ metrics.estimated_rows = SumAttr(nodes, "Plan Rows")
            /\ metrics.actual_rows = SumAttr(nodes, "Actual Rows")
            /\ metrics.shared_hit_blocks = SumAttr(nodes, "Shared Hit Blocks")
            /\ metrics.shared_read_blocks = SumAttr(nodes, "Shared Read Blocks")
            /\ metrics.temp_read_blocks = SumAttr(nodes, "Temp Read Blocks")
            /\ metrics.temp_written_blocks =
                   SumAttr(nodes, "Temp Written Blocks")

C21_Witness ==
    /\ WalkedTree
    /\ Len(AllNodes(PlanTree)) = 5
    /\ metrics.total_cost = 9
    /\ metrics.startup_cost = 1
    /\ metrics.estimated_rows = 20160
    /\ metrics.temp_written_blocks = 5

\* The orders of n children
Orders(n) == {f \in [1..n -> 1..n] : \A i, j \in 1..n : f[i] = f[j] => i = j}

\* The trees obtained from a tree by reordering the children of its nodes
RECURSIVE Reorderings(_)
Reorderings(node) ==
    LET children == Get(node, "Plans", PyList(<<>>)).items
        n == Len(children)
        each == [i \in 1..n |-> Reorderings(children[i])]
        choices == {c \in [1..n -> UNION {each[i] : i \in 1..n}] :
                       \A i \in 1..n : c[i] \in each[i]}
    IN  IF n = 0 THEN {node}
        ELSE {With(node, "Plans", PyList([i \in 1..n |-> c[f[i]]])) :
                 c \in choices, f \in Orders(n)}

\* The metrics analyze_query_plan returns for the call with this plan tree
MetricsOf(tree) ==
    analyze_query_plan(
        JsonText(PyList(<<With(explain_output.value.items[1], "Plan", tree)>>)),
        execution_time_ms, slow_threshold_ms, db_type).m

SetOf(list) == {list[i] : i \in 1..Len(list)}

\* Two metrics agree on everything the order of children could change,
\* startup_cost apart
SameAggregate(a, b) ==
    /\ \A f \in Flags \cup {"total_cost", "estimated_rows", "actual_rows",
                             "shared_hit_blocks", "shared_read_blocks",
                             "temp_read_blocks", "temp_written_blocks",
                             "performance_score"} : a[f] = b[f]
    /\ \A f \in {"node_types", "scan_types", "join_types", "tables_scanned"} :
           SetOf(a[f]) = SetOf(b[f])

(* C22 as stated: for every JSON plan tree and every reordering of the     *)
(* children of its nodes analyze_query_plan returns the same startup_cost, *)
(* total_cost, row sums, buffer counters, flags and performance_score and  *)
(* the same sets of node types, scan types, join types and tables, also    *)
(* when two nodes have equal Total Cost and different Startup Cost.        *)
C22_Original ==
    WalkedTree =>
        \A tree \in Reorderings(PlanTree) :
            /\ SameAggregate(MetricsOf(tree), metrics)
            /\ MetricsOf(tree).startup_cost = metrics.startup_cost

(* C22 as amended: the same for everything but startup_cost, which is the  *)
(* Startup Cost of the first node, parents before children and children in *)
(* their order, that has the highest Total Cost; it is the same for every  *)
(* order of children unless nodes with the highest Total Cost differ in    *)
(* Startup Cost.                                                           *)
C22_ChildOrderIrrelevant ==
    WalkedTree =>
        \A tree \in Reorderings(PlanTree) :
            LET nodes == AllNodes(tree)
                top == {i \in 1..Len(nodes) :
                           /\ Attr(nodes[i], "Total Cost") > 0
                           /\ Attr(nodes[i], "Total Cost") = metrics.total_cost}
            IN  /\ SameAggregate(MetricsOf(tree), metrics)
                /\ top # {} =>
                       MetricsOf(tree).startup_cost =
                           Attr(nodes[CHOOSE i \in top : \A j \in top : i <= j],
                                "Startup Cost")
                /\ (\A i, j \in top : Attr(nodes[i], "Startup Cost")
                                         = Attr(nodes[j], "Startup Cost"))
                       => MetricsOf(tree).startup_cost = metrics.startup_cost

C22_Witness ==
    /\ WalkedTree
    /\ Cardinality(Reorderings(PlanTree)) = 6
    /\ metrics.startup_cost = 1
    /\ \E tree \in Reorderings(PlanTree) : MetricsOf(tree).startup_cost = 2

---------------------------------------------------------------------------
(* Claims on the SEARCH lines of a sqlite plan *)

SearchScanTypes ==
    {PyStr(<<"Covering", "Index", "Scan">>), PyStr(<<"Primary", "Key", "Lookup">>),
     PyStr(<<"Automatic", "Index">>), PyStr(<<"Index", "Scan">>)}

(* C23: in the sqlite dialect every line SEARCH <table> USING <detail>     *)
(* whose detail contains "automatic", whatever else it contains, is        *)
(* classified as scan type "Automatic Index" and sets                      *)
(* missing_index_likely; every SEARCH line gets exactly one of the four    *)
(* scan types of SEARCH lines.                                             *)
C23_AutomaticIndex ==
    (/\ pc = "plan_returned"
     /\ db_type = "sqlite"
     /\ explain_output # None
     /\ explain_output.fmt = "lines") =>
        LET lines == explain_output.lines
            search == {i \in 1..Len(lines) : SearchMatch(StripLine(lines[i]))}
            automatic == {i \in search : InList("automatic", LowerStr(lines[i]))}
        IN  /\ Occurrences(metrics.scan_types, PyStr(<<"Automatic", "Index">>))
                   = Cardinality(automatic)
            /\ automatic # {} => metrics.missing_index_likely
            /\ Cardinality({i \in 1..Len(metrics.scan_types) :
                                metrics.scan_types[i] \in SearchScanTypes})
                   = Cardinality(search)

---------------------------------------------------------------------------
(* Claims on the order of the auxiliary queries of diagnose_empty_join *)

\* The auxiliary queries the code sends for n parsed tables, in order, when
\* steps of them are join steps and with_where says whether the last step
\* is re-run with the WHERE clause
AuxiliaryQueries(steps, with_where) ==
    [i \in 1..Len(tables) |-> CountTableSql(tables[i].table_name)]
    \o [i \in 1..steps |-> CountJoinStepSql(tables, i, <<>>)]
    \o (IF with_where
        THEN <<CountJoinStepSql(tables, Len(tables) - 1,
                                _extract_where_clause(query))>>
        ELSE <<>>)

(* C24: diagnose_empty_join sends its auxiliary queries one at a time in a *)
(* fixed order: the COUNT query of each of the n parsed tables, all n even *)
(* after one of them returned 0; then, only if no table is empty, the join *)
(* steps 1..n-1 in increasing order; then at most one query with the WHERE *)
(* clause.  Each query is finished by a commit or a rollback before the    *)
(* next one is sent, and at most 2n queries are sent.                      *)
C24_AuxiliaryQueryOrder ==
    /\ \A k \in 1..Len(calls) :
           IF k % 2 = 1 THEN calls[k].op = "execute"
           ELSE calls[k].op \in {"commit", "rollback"}
    /\ pc = "join_returned"
           => LET n == Len(tables)
                  sent == [k \in 1..Len(Executed) |-> Executed[k].sql]
              IN  /\ Len(calls) = 2 * Len(sent)
                  /\ Len(sent) <= 2 * n
                  /\ IF EmptyTables(table_counts) # <<>>
                     THEN sent = AuxiliaryQueries(0, FALSE)
                     ELSE \/ sent = AuxiliaryQueries(n - 1, FALSE)
                          \/ /\ _extract_where_clause(query) # <<>>
                             /\ sent = AuxiliaryQueries(n - 1, TRUE)

C24_Witness ==
    /\ pc = "join_returned"
    /\ Len(tables) = 3
    /\ Len(Executed) = 6
    /\ Executed[2].outcome.error = ErrorText
    /\ Executed[6].sql = CountJoinStepSql(tables, 2, _extract_where_clause(query))
    /\ calls[12].op = "commit"

---------------------------------------------------------------------------
(* Claims on a subquery as FROM target *)

\* The lexemes that open a parenthesised subquery
SubqueryOpeners == {"(", "(SELECT", "(select"}

\* The first FROM keyword of the query is followed by a subquery
FromTargetIsSubquery(toks) ==
    \E i \in 1..(Len(toks) - 1) :
        /\ Lower(toks[i]) = "from"
        /\ \A k \in 1..(i - 1) : Lower(toks[k]) # "from"
        /\ toks[i + 1] \in SubqueryOpeners

(* C25: for a query whose FROM keyword is followed by a parenthesised      *)
(* subquery, _extract_tables_from_query emits no TableInfo with join_type  *)
(* FROM, neither for the subquery nor for a table named inside it.         *)
C25_SubqueryFromSkipped ==
    (pc # "join_call" /\ FromTargetIsSubquery(query))
        => \A i \in 1..Len(tables) : tables[i].join_type # <<"FROM">>

---------------------------------------------------------------------------
(* Claims on the diagnostics without a culprit and on failed queries *)

(* C28: whenever diagnose_empty_join returns a diagnostic whose            *)
(* culprit_table is unset, every recorded join step has a nonzero row      *)
(* count, culprit_reason is empty, and the generic fallback reason for a   *)
(* zero final join step is not attached.                                   *)
C28_UndeterminedHasNoReason ==
    (pc = "join_returned" /\ culprit_table = None)
        => /\ join_steps # <<>>
           /\ \A i \in 1..Len(join_steps) : join_steps[i].row_count # 0
           /\ culprit_reason = <<>>
           /\ culprit_reason # FallbackReason

C28_Witness ==
    /\ pc = "join_returned"
    /\ culprit_table = None
    /\ Len(join_steps) = 3
    /\ where_clause # <<>>
    /\ Len(Executed) = 8
    /\ Executed[8].outcome = [row_count |-> 3, error |-> None]

(* C29: diagnose_empty_join never derives a culprit from an auxiliary      *)
(* query that failed: the join step reported as the one that reduces the   *)
(* result to 0 rows is never a step whose COUNT query returned an error,   *)
(* and "WHERE clause" is never the culprit when the query with the WHERE   *)
(* clause returned an error.                                               *)
C29_NoCulpritFromFailedQuery ==
    (pc = "join_returned" /\ EmptyTables(table_counts) = <<>>)
        => /\ \A i \in 1..Len(join_steps) :
                  culprit_reason = JoinStepReason(tables[i + 1])
                      => join_steps[i].error = None
           /\ culprit_table = PyStr(<<"WHERE", "clause">>)
                  => Executed[Len(Executed)].outcome.error = None

---------------------------------------------------------------------------
(* Claims on a SELECT analysed end to end *)

SeqScanWarningHead == <<"Sequential", "Scan", "detected", "on", "table", "'">>

\* The table a Sequential Scan warning names
WarnedTable(w) == SubSeq(w, Len(SeqScanWarningHead) + 1, Len(w) - 1)

\* The tables the plan scans sequentially: those of the SCAN lines of a
\* sqlite plan, those of the Seq Scan nodes of a JSON plan
SequentiallyScanned ==
    IF explain_output.fmt = "lines"
    THEN {<<ScannedTable(explain_output.lines[i])>> :
             i \in {k \in 1..Len(explain_output.lines) :
                        explain_output.lines[k] \in ScanLines}}
    ELSE LET nodes == AllNodes(PlanTree)
         IN  {Get(nodes[i], "Relation Name", PyStr(<<"unknown">>)).s :
                 i \in {k \in 1..Len(nodes) :
                     Get(nodes[k], "Node Type", PyNone) = PyStr(<<"Seq", "Scan">>)}}

(* C30: when a SELECT is analysed end to end, analyze_query_plan and then  *)
(* generate_suggestions on the metrics returned, every "Sequential Scan    *)
(* detected on table" warning names a table the plan scans sequentially (a *)
(* SCAN line of a sqlite plan, a Seq Scan node of a JSON plan); a table    *)
(* reached only through an index is never named, even when another table   *)
(* of the plan is scanned sequentially.                                    *)
C30_SeqScanWarningNamesScannedTable ==
    (/\ pc = "analysis_done"
     /\ explain_output # None
     /\ \/ db_type = "sqlite" /\ explain_output.fmt = "lines"
        \/ db_type = "postgres" /\ explain_output.fmt = "json") =>
        \A i \in 1..Len(warnings) :
            SubSeq(warnings[i], 1, Len(SeqScanWarningHead)) = SeqScanWarningHead
                => WarnedTable(warnings[i]) \in SequentiallyScanned

---------------------------------------------------------------------------
(* Claims on execute_all_queries and execute_query, checked under SpecExec *)

ShowplanOn == <<"SET", " ", "SHOWPLAN_TEXT", " ", "ON">>

\* calls[k] sends the main statement of a query: it executes a text of the
\* input outside SHOWPLAN mode
IsMainExecute(k) ==
    /\ calls[k].op = "execute"
    /\ \E q \in QueryPool : calls[k].sql = q[1]
    /\ k = 1 \/ calls[k - 1].sql # ShowplanOn

MainStarts ==
    SelectSeq([k \in 1..Len(calls) |-> k], LAMBDA k : IsMainExecute(k))

(* C26: execute_all_queries runs the queries one after the other in input  *)
(* order; results is a prefix of the input, result k having query_number   *)
(* k and the text and line number of the k-th query.  With                 *)
(* continue_on_error the list returned has one entry per query; without    *)
(* it the loop stops at the first failed query: at most one result has     *)
(* success = FALSE, it is the last one, and no later query is sent.        *)
C26_SequentialPrefix ==
    /\ Len(results) <= Len(queries)
    /\ \A k \in 1..Len(results) :
           /\ results[k].query_number = k
           /\ results[k].query_text = queries[k][1]
           /\ results[k].line_number = queries[k][2]
    /\ Len(MainStarts) = Len(results)
    /\ \A k \in 1..Len(MainStarts) : calls[MainStarts[k]].sql = queries[k][1]
    /\ ~continue_on_error
           => \A k \in 1..Len(results) :
                  ~results[k].success => k = Len(results) /\ pc = "exec_returned"
    /\ pc = "exec_returned"
           => \/ Len(results) = Len(queries)
              \/ /\ ~continue_on_error
                 /\ results # <<>>
                 /\ ~results[Len(results)].success

C26_Witness ==
    /\ pc = "exec_returned"
    /\ ~continue_on_error
    /\ Len(queries) = 3
    /\ Len(results) = 2
    /\ results[1].success
    /\ ~results[2].success
    /\ Len(MainStarts) = 2

\* The calls made for the i-th query
Segment(i) ==
    SubSeq(calls, MainStarts[i],
           IF i < Len(MainStarts) THEN MainStarts[i + 1] - 1 ELSE Len(calls))

\* Where the main statement of a segment ends: its commit, or the rollback
MainEnd(seg) ==
    CHOOSE j \in 1..Len(seg) :
        /\ \/ seg[j].op = "commit" /\ seg[j].outcome = "ok"
           \/ seg[j].op = "rollback"
        /\ \A k \in 1..(j - 1) :
               ~(\/ seg[k].op = "commit" /\ seg[k].outcome = "ok"
                 \/ seg[k].op = "rollback")

(* C27: for every query run by execute_query: if execute, fetch and commit *)
(* of the main statement complete, the connector is committed and the      *)
(* result has success = TRUE and error_message None; if one of them        *)
(* raises, the connector is rolled back and the result has success = FALSE *)
(* with the error string, and a result is returned all the same.  EXPLAIN  *)
(* is sent only when the main statement succeeded and the query type is    *)
(* SELECT, after the commit of the main statement; an EXPLAIN that fails   *)
(* leaves success = TRUE and explain_output None.                          *)
C27_CommitRollbackExplain ==
    /\ pc \in {"exec_loop", "exec_returned"}
    /\ Len(MainStarts) = Len(results)
    /\ \A i \in 1..Len(results) :
           LET seg == Segment(i)
               res == results[i]
               end == MainEnd(seg)
               raises == \E k \in 1..end : seg[k].outcome = "raised"
               later == {k \in (end + 1)..Len(seg) : seg[k].op = "execute"}
           IN  /\ ~raises => /\ seg[end].op = "commit"
                             /\ res.success
                             /\ res.error_message = None
               /\ raises => /\ seg[end].op = "rollback"
                            /\ ~res.success
                            /\ res.error_message = ErrorText
               /\ later # {} => /\ res.success
                                /\ res.query_type = "SELECT"
                                /\ seg[end].op = "commit"
               /\ (\E k \in later : seg[k].outcome = "raised")
                      => /\ res.success
                         /\ res.explain_output = None
                         /\ seg[Len(seg)].op = "rollback"

C27_Witness ==
    /\ pc = "exec_returned"
    /\ Len(results) = 3
    /\ results[1].success /\ results[1].explain_output # None
    /\ ~results[2].success /\ results[2].query_type = "SELECT"
    /\ results[3].success /\ results[3].query_type = "SELECT"
    /\ results[3].explain_output = None
    /\ calls[Len(calls)].op = "rollback"


===========================================================================
